---------------------------- MODULE Spec2Model ----------------------------
(***************************************************************************)
(* Model of the rule-expression language of                               *)
(* src/behavioral_patterns/interpreter/dsl_interpreter.py: tokenize,      *)
(* to_rpn (shunting-yard), rpn_to_ast and the interpret methods.          *)
(*                                                                         *)
(* A Python str is a sequence of one-character strings, so that replace,  *)
(* split, partition, strip, join, startswith and upper/lower are computed *)
(* as the code computes them.  A fused token is the very string the code  *)
(* builds ("CMP::a::=::1"), and rpn_to_ast takes it apart again.           *)
(***************************************************************************)
EXTENDS Integers, Sequences, FiniteSets, TLC

VARIABLES
    rule,        \* the rule text handed to parse
    pc,          \* position of the parse / interpret pipeline
    normalized,  \* tokenize: the list being scanned (mutated in place)
    i,           \* tokenize: scan index (1-based; the code's i + 1)
    tokens,      \* tokenize: the tokens emitted so far / its return value
    k,           \* to_rpn: index of the next token of the for loop
    out,         \* to_rpn: output queue / its return value
    ops,         \* to_rpn: operator stack
    r,           \* rpn_to_ast: index of the next postfix token
    stack,       \* rpn_to_ast: operand stack
    ast,         \* the Expr returned by parse (NoExpr before / on failure)
    err,         \* message of the ValueError raised (NoError if none)
    ctx,         \* the context of the last interpret call
    result,      \* value returned by the last interpret call
    calls,       \* the earlier parse calls of the process, with their outcomes
    evals,       \* the earlier interpret calls on the Expr, with their outcomes
    frame,       \* the interpret call under way: its stack, its locals, the caller's mappings
    tctx,        \* per thread: the context of its interpret call
    tctl,        \* per thread: what its interpret call has left to do
    tret,        \* per thread: the value the innermost finished call returned
    overlap,     \* two interpret calls were under way at the same time
    singleton,   \* metaclass_cache.py: SingletonMeta._instances and the Cache() calls in flight
    order,       \* state.py: an Order, the calls made on it and what the last one raised
    remote,      \* smarthome_command.py: a Remote, its receivers and the calls made on it
    marketing    \* marketing_interpreter.py: the last interpret call on a marketing rule

vars == <<rule, pc, normalized, i, tokens, k, out, ops, r, stack, ast, err, ctx, result,
          calls, evals, frame, tctx, tctl, tret, overlap, singleton, order, remote,
          marketing>>

\* the rule language: dsl_interpreter.py
dsl == <<rule, pc, normalized, i, tokens, k, out, ops, r, stack, ast, err, ctx, result,
         calls, evals, frame, tctx, tctl, tret, overlap>>

\* the programs of the other pattern examples
patterns == <<singleton, order, remote, marketing>>

\* the state of the concurrent interpret calls
threads == <<tctx, tctl, tret, overlap>>

-----------------------------------------------------------------------------
(* Python str helpers                                                      *)

LowerAlpha == <<"a","b","c","d","e","f","g","h","i","j","k","l","m",
                "n","o","p","q","r","s","t","u","v","w","x","y","z">>

UpperAlpha == <<"A","B","C","D","E","F","G","H","I","J","K","L","M",
                "N","O","P","Q","R","S","T","U","V","W","X","Y","Z">>

Digits == <<"0","1","2","3","4","5","6","7","8","9">>

\* characters str.split() and str.strip() treat as whitespace
Whitespace == {" ", "\n", "\t"}

UpperChar(c) ==
    IF \E j \in 1..26 : LowerAlpha[j] = c
    THEN UpperAlpha[CHOOSE j \in 1..26 : LowerAlpha[j] = c]
    ELSE c

LowerChar(c) ==
    IF \E j \in 1..26 : UpperAlpha[j] = c
    THEN LowerAlpha[CHOOSE j \in 1..26 : UpperAlpha[j] = c]
    ELSE c

\* str.upper()
Upper(s) == [j \in 1..Len(s) |-> UpperChar(s[j])]

\* str.lower()
Lower(s) == [j \in 1..Len(s) |-> LowerChar(s[j])]

\* s.startswith(p)
StartsWith(s, p) == Len(s) >= Len(p) /\ SubSeq(s, 1, Len(p)) = p

\* s.endswith(p)
EndsWith(s, p) == Len(s) >= Len(p) /\ SubSeq(s, Len(s) - Len(p) + 1, Len(s)) = p

\* positions at which p occurs in s
Occurrences(s, p) ==
    {j \in 1..(Len(s) - Len(p) + 1) : SubSeq(s, j, j + Len(p) - 1) = p}

\* p in s
Contains(s, p) == Occurrences(s, p) # {}

\* s.find(p), 1-based, 0 when absent
Find(s, p) ==
    IF Contains(s, p)
    THEN CHOOSE j \in Occurrences(s, p) : \A m \in Occurrences(s, p) : j <= m
    ELSE 0

\* s.partition(p): <<before, sep, after>> at the first occurrence of p
Partition(s, p) ==
    LET j == Find(s, p)
    IN  IF j = 0 THEN <<s, <<>>, <<>>>>
        ELSE <<SubSeq(s, 1, j - 1), p, SubSeq(s, j + Len(p), Len(s))>>

RECURSIVE LStrip(_, _)
LStrip(s, chars) ==
    IF s # <<>> /\ Head(s) \in chars THEN LStrip(Tail(s), chars) ELSE s

RECURSIVE RStrip(_, _)
RStrip(s, chars) ==
    IF s # <<>> /\ s[Len(s)] \in chars
    THEN RStrip(SubSeq(s, 1, Len(s) - 1), chars) ELSE s

\* s.strip(chars)
Strip(s, chars) == RStrip(LStrip(s, chars), chars)

\* s.split(): the whitespace-separated words of s, i.e. its maximal runs of
\* non-whitespace characters, in order
Split(s) ==
    LET starts == {j \in 1..Len(s) :
                      s[j] \notin Whitespace /\ (j = 1 \/ s[j - 1] \in Whitespace)}
        ends   == {j \in 1..Len(s) :
                      s[j] \notin Whitespace /\ (j = Len(s) \/ s[j + 1] \in Whitespace)}
        nth(S, m) == CHOOSE j \in S : Cardinality({x \in S : x < j}) = m - 1
    IN  [m \in 1..Cardinality(starts) |-> SubSeq(s, nth(starts, m), nth(ends, m))]

RECURSIVE SplitSep(_, _, _)
\* s.split(sep, maxsplit)
SplitSep(s, sep, maxsplit) ==
    IF maxsplit = 0 \/ ~Contains(s, sep) THEN <<s>>
    ELSE LET p == Partition(s, sep)
         IN  <<p[1]>> \o SplitSep(p[3], sep, maxsplit - 1)

RECURSIVE SplitAll(_, _)
\* s.split(sep)
SplitAll(s, sep) ==
    IF ~Contains(s, sep) THEN <<s>>
    ELSE LET p == Partition(s, sep)
         IN  <<p[1]>> \o SplitAll(p[3], sep)

RECURSIVE Join(_, _)
\* sep.join(parts)
Join(sep, parts) ==
    IF parts = <<>> THEN <<>>
    ELSE IF Len(parts) = 1 THEN parts[1]
    ELSE parts[1] \o sep \o Join(sep, Tail(parts))

-----------------------------------------------------------------------------
(* Literal strings of the source                                           *)

LPAREN == <<"(">>
RPAREN == <<")">>
LBRACE == <<"{">>
RBRACE == <<"}">>
COMMA  == <<",">>
AND    == <<"A","N","D">>
OR     == <<"O","R">>
NOT    == <<"N","O","T">>
IN_KW  == <<"I","N">>
SEP2   == <<":",":">>
BAR    == <<"|">>
CMP_PREFIX   == <<"C","M","P",":",":">>
INSET_PREFIX == <<"I","N","S","E","T",":",":">>

\* the characters tokenize pads with spaces: for ch in "(){},"
PadChars == {"(", ")", "{", "}", ","}

\* the words tokenize upper-cases
Keywords == {AND, OR, NOT, IN_KW}

\* the operators in an order that tries the one-character ones first
SplitOps_short_first == << <<">">>, <<"<">>, <<"=">>, <<">","=">>, <<"<","=">>, <<"!","=">> >>

\* the operators in the order tokenize looks for them inside a word
SplitOps == << <<">","=">>, <<"<","=">>, <<"!","=">>, <<">">>, <<"<">>, <<"=">> >>

\* is_op(tok)
is_op(tok) ==
    tok \in { <<"=">>, <<"!","=">>, <<">">>, <<">","=">>, <<"<">>, <<"<","=">> }

\* messages of the ValueErrors raised
NoError              == "none"
UnclosedSet          == "Unclosed set in IN {...}"
MismatchedParens     == "Mismatched parentheses"
InsufficientBinary   == "Insufficient operands"
InsufficientNot      == "Insufficient operands for NOT"
UnexpectedToken      == "Unexpected token"
InvalidExpression    == "Invalid expression"
UnpackError          == "not enough values to unpack"


-----------------------------------------------------------------------------
(* Values, Expr nodes                                                      *)

\* Python values of a context / of Comparison.value, tagged by type
Num(n)  == <<"num", n>>
Str(s)  == <<"str", s>>
Bool(b) == <<"bool", b>>
\* an int beyond the range of float: 10**400
Huge    == <<"huge">>
None    == <<"none">>

\* the frozen dataclasses And, Or, Not, Comparison, InSet
And(left, right) == <<"And", left, right>>
Or(left, right)  == <<"Or", left, right>>
Not(expr)        == <<"Not", expr>>
Comparison(field, op, value) == <<"Comparison", field, op, value>>
InSet(field, values)         == <<"InSet", field, values>>

NoExpr == <<"NoExpr">>

RECURSIVE DigitsValue(_, _)
\* value of a string of decimal digits, most significant first
DigitsValue(s, acc) ==
    IF s = <<>> THEN acc
    ELSE DigitsValue(Tail(s),
                     10 * acc + (CHOOSE d \in 0..9 : Digits[d + 1] = Head(s)))

IsDigit(c) == \E d \in 1..10 : Digits[d] = c

\* float(x) for a str x, on the decimal-integer syntax [ws][+-]digits[ws];
\* ValueError (None) for every other string.  Strings in float()'s further
\* syntax (fraction, exponent, inf, nan, underscores) are kept out of the
\* inputs.
ParseFloat(s) ==
    LET t == Strip(s, Whitespace)
        signed == t # <<>> /\ Head(t) \in {"+", "-"}
        d == IF signed THEN Tail(t) ELSE t
    IN  IF d # <<>> /\ \A j \in 1..Len(d) : IsDigit(d[j])
        THEN Num(IF signed /\ Head(t) = "-" THEN 0 - DigitsValue(d, 0)
                 ELSE DigitsValue(d, 0))
        ELSE None

RECURSIVE NatToStr(_)
NatToStr(n) ==
    IF n < 10 THEN <<Digits[n + 1]>>
    ELSE Append(NatToStr(n \div 10), Digits[(n % 10) + 1])

\* str(x)
PyStr(x) ==
    CASE x[1] = "str"  -> x[2]
      [] x[1] = "num"  -> IF x[2] < 0 THEN <<"-">> \o NatToStr(0 - x[2])
                          ELSE NatToStr(x[2])
      [] x[1] = "bool" -> IF x[2] THEN <<"T","r","u","e">>
                          ELSE <<"F","a","l","s","e">>
      [] x[1] = "huge" -> <<"1">> \o [j \in 1..400 |-> "0"]
      [] OTHER         -> <<"N","o","n","e">>

\* to_num that never recognises a number
to_num_never(x) == None

\* the exception float(x) raises for an int beyond the float range; the
\* except clause of to_num names TypeError and ValueError only
OverflowError == <<"OverflowError">>

\* to_num that takes only numbers and bools for numeric, never a string
to_num_numbers_only(x) ==
    CASE x[1] = "num"  -> x
      [] x[1] = "bool" -> Num(IF x[2] THEN 1 ELSE 0)
      [] x[1] = "huge" -> OverflowError
      [] OTHER         -> None

\* to_num(x) inside Comparison.interpret: float(x), None on TypeError/ValueError;
\* any other exception of float(x) leaves the function
to_num(x) ==
    CASE x[1] = "num"  -> x
      [] x[1] = "bool" -> Num(IF x[2] THEN 1 ELSE 0)
      [] x[1] = "str"  -> ParseFloat(x[2])
      [] x[1] = "huge" -> OverflowError
      [] OTHER         -> None

\* to_num(x) ends in an exception instead of returning
ToNumRaises(x) == to_num(x) \notin {None} /\ to_num(x)[1] # "num"

\* a lookup that reads an absent field as the number 0
CtxGet_zero(c, field) == IF field \in DOMAIN c THEN c[field] ELSE Num(0)

\* a lookup that enters an absent field into the mapping, as setdefault does
AfterGet_setdefault(c, field) ==
    IF field \in DOMAIN c THEN c ELSE (field :> None) @@ c

\* the mapping after ctx.get(field): dict.get enters nothing into the dict
AfterGet(c, field) == c

\* ctx.get(field)
CtxGet(c, field) == IF field \in DOMAIN c THEN c[field] ELSE None

\* Comparison.interpret whose string path compares without lower-casing
ComparisonInterpret_case_sensitive(e, c) ==
    LET left == CtxGet(c, e[2])
        op   == e[3]
        lnum == to_num(left)
        rnum == to_num(e[4])
    IN  IF lnum # None /\ rnum # None
        THEN CASE op = <<"=">>      -> lnum[2] = rnum[2]
               [] op = <<"!","=">>  -> lnum[2] # rnum[2]
               [] op = <<">">>      -> lnum[2] > rnum[2]
               [] op = <<">","=">>  -> lnum[2] >= rnum[2]
               [] op = <<"<">>      -> lnum[2] < rnum[2]
               [] op = <<"<","=">>  -> lnum[2] <= rnum[2]
               [] OTHER             -> FALSE
        ELSE LET ls == IF left = None THEN <<>> ELSE PyStr(left)
                 rs == IF e[4] = None THEN <<>> ELSE PyStr(e[4])
             IN  CASE op = <<"=">>     -> ls = rs
                   [] op = <<"!","=">> -> ls # rs
                   [] OTHER            -> FALSE

\* Comparison.interpret
ComparisonInterpret(e, c) ==
    LET left == CtxGet(c, e[2])
        op   == e[3]
        lnum == to_num(left)
        rnum == to_num(e[4])
    IN  IF lnum # None /\ rnum # None
        THEN CASE op = <<"=">>      -> lnum[2] = rnum[2]
               [] op = <<"!","=">>  -> lnum[2] # rnum[2]
               [] op = <<">">>      -> lnum[2] > rnum[2]
               [] op = <<">","=">>  -> lnum[2] >= rnum[2]
               [] op = <<"<">>      -> lnum[2] < rnum[2]
               [] op = <<"<","=">>  -> lnum[2] <= rnum[2]
               [] OTHER             -> FALSE
        ELSE LET ls == Lower(IF left = None THEN <<>> ELSE PyStr(left))
                 rs == Lower(IF e[4] = None THEN <<>> ELSE PyStr(e[4]))
             IN  CASE op = <<"=">>     -> ls = rs
                   [] op = <<"!","=">> -> ls # rs
                   [] OTHER            -> FALSE

\* InSet.interpret that lower-cases the members but not the field's value
InSetInterpret_exact(e, c) ==
    LET v == CtxGet(c, e[2])
    IN  IF v = None THEN FALSE
        ELSE PyStr(v) \in {Lower(e[3][j]) : j \in 1..Len(e[3])}

\* InSet.interpret
InSetInterpret(e, c) ==
    LET v == CtxGet(c, e[2])
    IN  IF v = None THEN FALSE
        ELSE Lower(PyStr(v)) \in {Lower(e[3][j]) : j \in 1..Len(e[3])}

\* Comparison.interpret ends in an exception: to_num(left) is called first,
\* then to_num(self.value)
ComparisonRaises(e, c) == ToNumRaises(CtxGet(c, e[2])) \/ ToNumRaises(e[4])

RECURSIVE NodeAt(_, _)
\* the node a chain of attribute reads leads to from e: 2 is self.left (or
\* self.expr of a Not), 3 is self.right
NodeAt(e, path) ==
    IF path = <<>> THEN e ELSE NodeAt(e[Head(path)], Tail(path))

RECURSIVE InterpretRaises(_, _)
RECURSIVE interpret(_, _)
\* Expr.interpret(ctx), dispatched on the node's class
interpret(e, c) ==
    CASE e[1] = "And"        -> interpret(e[2], c) /\ interpret(e[3], c)
      [] e[1] = "Or"         -> interpret(e[2], c) \/ interpret(e[3], c)
      [] e[1] = "Not"        -> ~interpret(e[2], c)
      [] e[1] = "Comparison" -> ComparisonInterpret(e, c)
      [] e[1] = "InSet"      -> InSetInterpret(e, c)

\* Expr.interpret(ctx) ends in an exception; "and" and "or" evaluate their
\* right operand only when the left one does not decide
InterpretRaises(e, c) ==
    CASE e[1] = "And"        -> \/ InterpretRaises(e[2], c)
                                \/ interpret(e[2], c) /\ InterpretRaises(e[3], c)
      [] e[1] = "Or"         -> \/ InterpretRaises(e[2], c)
                                \/ ~interpret(e[2], c) /\ InterpretRaises(e[3], c)
      [] e[1] = "Not"        -> InterpretRaises(e[2], c)
      [] e[1] = "Comparison" -> ComparisonRaises(e, c)
      [] e[1] = "InSet"      -> FALSE

-----------------------------------------------------------------------------
(* tokenize                                                                *)

\* for ch in "(){},": s = s.replace(ch, f" {ch} ")
\* (character s[j] lands at position j + 2 * pads before it, one further
\* if it is padded itself; every other position holds a space)
PadPunct(s) ==
    LET pads(j) == Cardinality({x \in 1..j : s[x] \in PadChars})
        pos(j)  == j + 2 * pads(j - 1) + (IF s[j] \in PadChars THEN 1 ELSE 0)
    IN  [m \in 1..(Len(s) + 2 * pads(Len(s))) |->
            IF \E j \in 1..Len(s) : pos(j) = m
            THEN s[CHOOSE j \in 1..Len(s) : pos(j) = m]
            ELSE " "]

\* a normalisation loop that knows the keywords in upper case only
Normalize_exact(parts) == parts

\* the keyword normalisation loop
Normalize(parts) ==
    [j \in 1..Len(parts) |->
        IF Upper(parts[j]) \in Keywords THEN Upper(parts[j]) ELSE parts[j]]

\* an embedded-operator scan that never finds an operator
SplittableAt_never(t) == {}

\* the operators the embedded-operator scan may split word t at
SplittableAt(t) ==
    {j \in 1..Len(SplitOps) :
        /\ Contains(t, SplitOps[j])
        /\ t \notin {LPAREN, RPAREN, LBRACE, RBRACE, COMMA}
        /\ Upper(t) \notin Keywords}

\* normalized after the embedded-operator scan of normalized[i]:
\* normalized[i:i+1] = [field, sep, rest] for the first operator found
SplitEmbedded(norm, at) ==
    LET t == norm[at]
        S == SplittableAt(t)
    IN  IF S = {} THEN norm
        ELSE LET j == CHOOSE x \in S : \A y \in S : x <= y
                 p == Partition(t, SplitOps[j])
             IN  SubSeq(norm, 1, at - 1) \o p \o SubSeq(norm, at + 1, Len(norm))

RECURSIVE SetEnd(_, _)
\* the inner while of the IN branch: first index >= j holding "}", else len + 1
SetEnd(norm, j) ==
    IF j <= Len(norm) /\ norm[j] # RBRACE THEN SetEnd(norm, j + 1) ELSE j

RECURSIVE SetVals(_, _, _)
\* vals collected from norm[from .. to]: commas skipped, quotes stripped
SetVals(norm, from, to) ==
    IF from > to THEN <<>>
    ELSE (IF norm[from] # COMMA
          THEN <<Strip(Strip(Strip(norm[from], Whitespace), {"\""}), {"'"})>>
          ELSE <<>>)
         \o SetVals(norm, from + 1, to)

\* f"INSET::{field}::" + "|".join(vals)
InSetToken(field, vals) == INSET_PREFIX \o field \o SEP2 \o Join(BAR, vals)

\* f"CMP::{field}::{op}::{value}"
CmpToken(field, op, value) == CMP_PREFIX \o field \o SEP2 \o op \o SEP2 \o value

\* guard of the "field IN { ... }" branch (i is 1-based: the code's i + 3 < len)
IsInSetHead(norm, at) ==
    /\ at + 2 < Len(norm)
    /\ norm[at + 1] = IN_KW
    /\ norm[at + 2] = LBRACE

\* guard of the "field op value" branch (the code's i + 2 < len)
IsCmpHead(norm, at) ==
    /\ at + 1 < Len(norm)
    /\ is_op(norm[at + 1])

-----------------------------------------------------------------------------
(* to_rpn                                                                  *)

\* PRECEDENCE with AND as low as OR
PRECEDENCE_flat(t) == IF t = NOT THEN 3 ELSE 1

\* PRECEDENCE with AND below OR
PRECEDENCE_swapped(t) == IF t = NOT THEN 3 ELSE IF t = AND THEN 1 ELSE 2

\* PRECEDENCE = {"NOT": 3, "AND": 2, "OR": 1}
PRECEDENCE(t) == IF t = NOT THEN 3 ELSE IF t = AND THEN 2 ELSE 1

InPrecedence(t) == t \in {NOT, AND, OR}

\* RIGHT_ASSOC without NOT
RIGHT_ASSOC_none == {}

\* RIGHT_ASSOC = {"NOT"}
RIGHT_ASSOC == {NOT}

\* condition of the while loop that pops operators before pushing t
PopsBefore(top, t) ==
    /\ InPrecedence(top)
    /\ \/ PRECEDENCE(top) > PRECEDENCE(t)
       \/ (PRECEDENCE(top) = PRECEDENCE(t) /\ t \notin RIGHT_ASSOC)

RECURSIVE PopOperators(_, _, _)
\* while ops and ops[-1] in PRECEDENCE and (...): out.append(ops.pop())
PopOperators(o, q, t) ==
    IF o # <<>> /\ PopsBefore(o[Len(o)], t)
    THEN PopOperators(SubSeq(o, 1, Len(o) - 1), Append(q, o[Len(o)]), t)
    ELSE <<o, q>>

\* the "(" left on the stack
DiscardParen_keep(o) == o

\* ops.pop() once the "(" is on top: both parentheses are discarded
DiscardParen(o) == SubSeq(o, 1, Len(o) - 1)

\* a final loop that takes a parenthesis for an operator
IsParen_never(op) == FALSE

\* op in ("(", ")") in the final while loop
IsParen(op) == op \in {LPAREN, RPAREN}

RECURSIVE PopToParen_drop(_, _)
\* a pop loop that forgets the operators it pops
PopToParen_drop(o, q) ==
    IF o # <<>> /\ o[Len(o)] # LPAREN
    THEN PopToParen_drop(SubSeq(o, 1, Len(o) - 1), q)
    ELSE <<o, q>>

RECURSIVE PopToParen(_, _)
\* while ops and ops[-1] != "(": out.append(ops.pop())
PopToParen(o, q) ==
    IF o # <<>> /\ o[Len(o)] # LPAREN
    THEN PopToParen(SubSeq(o, 1, Len(o) - 1), Append(q, o[Len(o)]))
    ELSE <<o, q>>

-----------------------------------------------------------------------------
(* rpn_to_ast                                                              *)

\* len(stack) < 3
TooFewForBinary_three(n) == n < 3

\* len(stack) < 2: AND / OR lacks an operand
TooFewForBinary(n) == n < 2

\* not stack: NOT lacks its operand
TooFewForNot(n) == n = 0

\* not stack, in place of len(stack) != 1
NotSingleRoot_empty(n) == n = 0

\* len(stack) != 1 after the loop
NotSingleRoot(n) == n # 1

\* quotes stripped if the value starts and ends with the same quote
Unquote(value) ==
    IF \/ (StartsWith(value, <<"\"">>) /\ EndsWith(value, <<"\"">>))
       \/ (StartsWith(value, <<"'">>) /\ EndsWith(value, <<"'">>))
    THEN SubSeq(value, 2, Len(value) - 1)
    ELSE value

\* numeric literal if float(value) succeeds (an integral float becomes an int)
Literal(value) ==
    LET v == Unquote(value)
        f == ParseFloat(v)
    IN  IF f # None THEN f ELSE Str(v)

\* the leaf built from a "CMP::" token (its four "::"-separated parts)
CmpLeaf(t) ==
    LET parts == SplitSep(t, SEP2, 3)
    IN  Comparison(parts[2], parts[3], Literal(parts[4]))

\* the leaf built from an "INSET::" token
InSetLeaf(t) ==
    LET parts == SplitSep(t, SEP2, 2)
        rest == parts[3]
    IN  InSet(parts[2], IF rest # <<>> THEN SplitAll(rest, BAR) ELSE <<>>)


-----------------------------------------------------------------------------
(* Inputs: the rules parse is called with, the contexts interpret is       *)
(* called with                                                             *)

\* largest number of nodes of a generated grammar tree
MaxNodes == 5

\* largest number of words of a free word sequence
MaxWords == 3

\* largest number of values written after "x IN {"
MaxSetVals == 2

F_v == <<"v">>
F_age == <<"a","g","e">>
F_a == <<"a">>
F_b == <<"b">>
F_c == <<"c">>
F_role        == <<"r","o","l","e">>
F_dept        == <<"d","e","p","t">>
F_resource    == <<"r","e","s","o","u","r","c","e">>
F_action      == <<"a","c","t","i","o","n">>
F_country     == <<"c","o","u","n","t","r","y">>
F_app_version == <<"a","p","p","_","v","e","r","s","i","o","n">>

\* the predicates p, q, r of the generated rules: text, and the field,
\* operator and number the text spells
Preds == { [text |-> <<"a","=","1">>, field |-> F_a, n |-> 1],
           [text |-> <<"b","=","2">>, field |-> F_b, n |-> 2],
           [text |-> <<"c","=","3">>, field |-> F_c, n |-> 3] }

PredTexts == {p.text : p \in Preds}

\* grammar trees by number of nodes: predicate leaves under NOT, AND, OR
RECURSIVE ShapesOfSize(_)
ShapesOfSize(n) ==
    IF n = 1 THEN {<<"P", t>> : t \in PredTexts}
    ELSE {<<"N", x>> : x \in ShapesOfSize(n - 1)}
         \cup UNION { {<<o, x, y>> : o \in {"A", "O"},
                                     x \in ShapesOfSize(m),
                                     y \in ShapesOfSize(n - 1 - m)}
                      : m \in 1..(n - 2) }

Shapes == UNION {ShapesOfSize(n) : n \in 1..MaxNodes}

\* grammar level of a tree: or_expr 1, and_expr 2, not_expr 3, atom 4
ShapeLevel(x) ==
    CASE x[1] = "O" -> 1 [] x[1] = "A" -> 2 [] x[1] = "N" -> 3 [] OTHER -> 4

RECURSIVE Render(_, _)
\* the words of the rule a tree is derived to by the grammar, with
\* parentheses only where a subtree sits below level lvl
Render(x, lvl) ==
    LET body ==
            CASE x[1] = "O" -> Render(x[2], 1) \o <<OR>> \o Render(x[3], 2)
              [] x[1] = "A" -> Render(x[2], 2) \o <<AND>> \o Render(x[3], 3)
              [] x[1] = "N" -> <<NOT>> \o Render(x[2], 3)
              [] OTHER      -> <<x[2]>>
    IN  IF ShapeLevel(x) < lvl THEN <<LPAREN>> \o body \o <<RPAREN>> ELSE body

\* words written with one space between them
Text(words) == Join(<<" ">>, words)

GrammarRules == {Text(Render(x, 1)) : x \in Shapes}

\* every sequence of at most MaxWords words over parentheses, keywords and
\* two predicates
FreeWords == {LPAREN, RPAREN, AND, OR, NOT, <<"a","=","1">>, <<"b","=","2">>}

FreeRules ==
    {Text(ws) : ws \in UNION {[1..n -> FreeWords] : n \in 0..MaxWords}}

\* "x IN {" followed by n values, with or without commas and closing brace
SetValWords == << <<"a">>, <<"b">>, <<"c">>, <<"d">> >>

SetRules ==
    {Text(<<<<"x">>, IN_KW, LBRACE>>) \o sep \o Join(<<",">> \o sep, SubSeq(SetValWords, 1, n)) \o close
        : n \in 0..MaxSetVals, sep \in {<<>>, <<" ">>}, close \in {<<>>, <<"}">>}}

\* the rule of the example usage
RefRule ==
    Join(<<"\n">>, <<
        <<>>,
        <<"(","r","o","l","e","=","a","d","m","i","n",")">>,
        <<"O","R">>,
        <<"(","d","e","p","t","=","f","i","n","a","n","c","e"," ","A","N","D"," ","r","e","s","o","u","r","c","e","=","r","e","p","o","r","t","s"," ","A","N","D"," ","N","O","T"," ","a","c","t","i","o","n","=","d","e","l","e","t","e",")">>,
        <<"O","R">>,
        <<"(","c","o","u","n","t","r","y"," ","I","N"," ","{","D","E",","," ","F","R","}"," ","A","N","D"," ","a","p","p","_","v","e","r","s","i","o","n",">","=","3",")">>,
        <<>> >>)

\* further rules of the documentation
ExampleRules ==
    { RefRule,
      <<"a","=","1"," ","A","N","D"," ","(","b","=","2">>,
      <<"a","=","1"," ","O","R"," ","A","N","D"," ","b","=","2">>,
      <<"a","=","1"," ","N","O","T"," ","A","N","D"," ","b","=","2">>,
      <<"a","=","1"," ","A","N","D"," ","b","=","2",")">>,
      <<"(","a","=","1"," ","O","R"," ","b","=","2",")"," ","A","N","D"," ","(","N","O","T"," ","c","=","3"," ","O","R"," ","a","=","1",")">>,
      <<"x"," ","I","N"," ","{","a",","," ","b">>,
      <<"c","o","u","n","t","r","y"," ","I","N"," ","{","D","E",","," ","F","R","}">>,
      <<"a","g","e",">","=","1","8">>,
      <<"r","o","l","e","=","a","d","m","i","n">>,
      <<"C","M","P",":",":","x">>,
      <<"I","N","S","E","T",":",":","y">> }

\* the six comparison operators
CmpOps == {SplitOps[j] : j \in 1..Len(SplitOps)}

\* one comparison of field v per operator and literal, written without spaces
TypedLiterals ==
    { <<"1","8">>, <<"0">>, <<"-","5">>, <<"a","d","m","i","n">>, <<"T","r","u","e">> }

TypedRules ==
    {F_v \o op \o lit : op \in CmpOps, lit \in TypedLiterals}
    \cup { <<"r","o","l","e",">","a","d","m","i","n">>,
           <<"v"," ","I","N"," ","{","D","E",","," ","1","8",","," ","t","r","u","e","}">>,
           <<"v"," ","I","N"," ","{","}">> }

\* the comparison a op 1 in its four spellings, and punctuation written with
\* and without whitespace around it
SpelledCmp(op, s1, s2) == F_a \o s1 \o op \o s2 \o <<"1">>

SpelledRules ==
    {SpelledCmp(op, s1, s2) : op \in CmpOps, s1 \in {<<>>, <<" ">>}, s2 \in {<<>>, <<" ">>}}
    \cup { <<"(","a","=","1",")">>,
           <<" ","("," ","a","=","1"," ",")"," ">>,
           <<"x"," ","I","N","{","a",",","b","}">>,
           <<"x"," ","I","N"," ","{"," ","a"," ",","," ","b"," ","}">> }

\* rules with more than one defect: an unclosed set, unbalanced parentheses,
\* operators without operands
DefectRules ==
    { <<"("," ","x"," ","I","N"," ","{">>,
      <<"("," ","x"," ","I","N"," ","{","a">>,
      <<"a","=","1"," ","A","N","D"," ",")"," ","x"," ","I","N"," ","{","a",","," ","b">>,
      <<"("," ","x"," ","I","N"," ","{","a",","," ","b","}"," ","A","N","D">>,
      <<"("," ","A","N","D"," ","A","N","D">>,
      <<")"," ","x">> }

RuleInputs ==
    GrammarRules \cup FreeRules \cup SetRules \cup ExampleRules
    \cup TypedRules \cup SpelledRules \cup DefectRules

\* a context over the six fields of the example usage
RefContext(role, dept, resource, action, country, version) ==
    (F_role :> Str(role)) @@ (F_dept :> Str(dept)) @@ (F_resource :> Str(resource))
    @@ (F_action :> Str(action)) @@ (F_country :> Str(country))
    @@ (F_app_version :> Num(version))

\* the five contexts of the example usage, in source order
contexts ==
    << RefContext(<<"a","d","m","i","n">>, <<"i","t">>, <<"d","b">>, <<"d","e","l","e","t","e">>, <<"U","S">>, 1),
       RefContext(<<"u","s","e","r">>, <<"f","i","n","a","n","c","e">>, <<"r","e","p","o","r","t","s">>, <<"v","i","e","w">>, <<"U","S">>, 2),
       RefContext(<<"u","s","e","r">>, <<"f","i","n","a","n","c","e">>, <<"r","e","p","o","r","t","s">>, <<"d","e","l","e","t","e">>, <<"U","S">>, 2),
       RefContext(<<"u","s","e","r">>, <<"s","a","l","e","s">>, <<"d","a","s","h">>, <<"v","i","e","w">>, <<"D","E">>, 3),
       RefContext(<<"u","s","e","r">>, <<"s","a","l","e","s">>, <<"d","a","s","h">>, <<"v","i","e","w">>, <<"D","E">>, 2) >>

\* contexts over the six fields, some values in another letter case
RefContexts ==
    {RefContext(ro, de, re, ac, co, ve) :
        ro \in {<<"A","d","m","i","n">>, <<"u","s","e","r">>},
        de \in {<<"f","i","n","a","n","c","e">>, <<"i","t">>},
        re \in {<<"r","e","p","o","r","t","s">>, <<"d","b">>},
        ac \in {<<"d","e","l","e","t","e">>, <<"v","i","e","w">>},
        co \in {<<"D","E">>, <<"f","r">>, <<"U","S">>},
        ve \in {2, 3}}

\* contexts over a, b, c: each field absent, the number its predicate
\* names, or 0
AbcContexts ==
    {[f \in D |-> Num(IF f \in T THEN (CHOOSE p \in Preds : p.field = f).n ELSE 0)] :
        D \in SUBSET {F_a, F_b, F_c},
        T \in SUBSET {F_a, F_b, F_c}}

\* values of every type a context holds: numbers, strings holding a number,
\* other strings, booleans, an int beyond the float range
TypedValues ==
    { Num(20), Num(18), Num(0), Num(0 - 5), Huge, Bool(TRUE), Bool(FALSE),
      Str(<<"2","0">>), Str(<<"1","8">>), Str(<<" ","1","8"," ">>), Str(<<"0">>),
      Str(<<"-","5">>), Str(<<"A","d","m","i","n">>), Str(<<"a","d","m","i","n">>),
      Str(<<"D","E">>), Str(<<"d","e">>), Str(<<"T","R","U","E">>), Str(<<>>) }

\* the empty context, field v with each value, and the contexts of the
\* documentation's examples
TypedContexts ==
    {<<>>} \cup {F_v :> x : x \in TypedValues}
    \cup { F_age :> Str(<<"2","0">>),
           F_role :> Str(<<"A","d","m","i","n">>),
           F_country :> Str(<<"d","e">>) }

ContextInputs ==
    RefContexts \cup AbcContexts \cup TypedContexts
    \cup {contexts[j] : j \in 1..Len(contexts)}

NoContext == <<>>

-----------------------------------------------------------------------------
(* The pipeline parse(rule) = rpn_to_ast(to_rpn(tokenize(rule))), then     *)
(* expr.interpret(ctx)                                                     *)

(* metaclass_cache.py: SingletonMeta and Cache                             *)

NCallers == 3

\* the threads that call Cache()
Callers == 1..NCallers

\* the module as imported, Cache() not called yet: _instances = {}; every
\* caller is about to enter SingletonMeta.__call__
SingletonInit ==
    [ instances |-> <<>>,                               \* cls._instances
      at        |-> [t \in Callers |-> "check"],        \* the line a caller is at
      instance  |-> [t \in Callers |-> 0],              \* a caller's local instance
      returned  |-> [t \in Callers |-> 0],              \* what Cache() returned to it
      inits     |-> 0 ]                                 \* runs of Cache.__init__ so far

\* if cls not in cls._instances:
SingletonCheck(t) ==
    /\ singleton.at[t] = "check"
    /\ singleton' = [singleton EXCEPT !.at[t] =
            IF "Cache" \notin DOMAIN singleton.instances THEN "create" ELSE "return"]
    /\ UNCHANGED <<dsl, order, remote, marketing>>

\* instance = super().__call__(*args, **kwargs): a new object, numbered by
\* the run of Cache.__init__ that initialised it
SingletonCreate(t) ==
    /\ singleton.at[t] = "create"
    /\ singleton' = [singleton EXCEPT !.inits = @ + 1,
                                      !.instance[t] = singleton.inits + 1,
                                      !.at[t] = "store"]
    /\ UNCHANGED <<dsl, order, remote, marketing>>

\* cls._instances[cls] = instance
SingletonStore(t) ==
    /\ singleton.at[t] = "store"
    /\ singleton' = [singleton EXCEPT !.instances = ("Cache" :> singleton.instance[t]),
                                      !.at[t] = "return"]
    /\ UNCHANGED <<dsl, order, remote, marketing>>

\* return cls._instances[cls]
SingletonReturn(t) ==
    /\ singleton.at[t] = "return"
    /\ singleton' = [singleton EXCEPT !.returned[t] = singleton.instances["Cache"],
                                      !.at[t] = "done"]
    /\ UNCHANGED <<dsl, order, remote, marketing>>

NextSingleton ==
    \E t \in Callers :
        \/ SingletonCheck(t)
        \/ SingletonCreate(t)
        \/ SingletonStore(t)
        \/ SingletonReturn(t)

-----------------------------------------------------------------------------
(* state.py: Order and its four states                                     *)

MaxOrderCalls == 4

\* the outcome of a method of a state: the state handed to order.set_state
\* (the old one when set_state is not called) and the ValueError raised
Moved(to) == [state |-> to, raised |-> "none"]
Refused(from, msg) == [state |-> from, raised |-> msg]

\* class DraftState
DraftState(call) ==
    CASE call = "submit"  -> Moved("SubmittedState")
      [] call = "approve" -> Refused("DraftState", "Can't approve a draft order")
      [] call = "reject"  -> Refused("DraftState", "Can't reject a draft order")
      [] call = "ship"    -> Refused("DraftState", "Can't ship a draft order")

\* class SubmittedState
SubmittedState(call) ==
    CASE call = "submit"  -> Refused("SubmittedState", "Already submitted")
      [] call = "approve" -> Moved("ApprovedState")
      [] call = "reject"  -> Moved("RejectedState")
      [] call = "ship"    -> Refused("SubmittedState", "Can't ship a submitted order: approve first.")

\* class ApprovedState; ship prints and keeps the state
ApprovedState(call) ==
    CASE call = "submit"  -> Refused("ApprovedState", "Already processed")
      [] call = "approve" -> Refused("ApprovedState", "Already approved")
      [] call = "reject"  -> Refused("ApprovedState", "Can't reject an approved order")
      [] call = "ship"    -> Moved("ApprovedState")

\* a RejectedState that lets the order be submitted again
RejectedState_resubmit(call) ==
    CASE call = "submit"  -> Moved("SubmittedState")
      [] call = "approve" -> Refused("RejectedState", "Can't approve a rejected order")
      [] call = "reject"  -> Refused("RejectedState", "Already rejected")
      [] call = "ship"    -> Refused("RejectedState", "Can't ship a rejected order")

\* class RejectedState
RejectedState(call) ==
    CASE call = "submit"  -> Refused("RejectedState", "Can't submit a rejected order")
      [] call = "approve" -> Refused("RejectedState", "Can't approve a rejected order")
      [] call = "reject"  -> Refused("RejectedState", "Already rejected")
      [] call = "ship"    -> Refused("RejectedState", "Can't ship a rejected order")

\* self.state.<call>(self): the method of the current state's class
Delegate(state, call) ==
    CASE state = "DraftState"     -> DraftState(call)
      [] state = "SubmittedState" -> SubmittedState(call)
      [] state = "ApprovedState"  -> ApprovedState(call)
      [] state = "RejectedState"  -> RejectedState(call)

\* order = Order(): starts in Draft; log is the calls made so far
OrderInit == [state |-> "DraftState", raised |-> "none", log |-> <<>>]

\* one call of a method of Order
OrderCall(call) ==
    /\ Len(order.log) < MaxOrderCalls
    /\ LET o == Delegate(order.state, call)
       IN  order' = [state |-> o.state, raised |-> o.raised, log |-> Append(order.log, call)]
    /\ UNCHANGED <<dsl, singleton, remote, marketing>>

\* Order.submit, Order.approve, Order.reject, Order.ship
Submit  == OrderCall("submit")
Approve == OrderCall("approve")
Reject  == OrderCall("reject")
Ship    == OrderCall("ship")

\* the state classes an OrderState instance can be of
OrderStates == {"DraftState", "SubmittedState", "ApprovedState", "RejectedState"}

\* the entry a call order.set_state(s) leaves in the log
SetStateCall(s) ==
    CASE s = "DraftState"     -> "set_state(DraftState())"
      [] s = "SubmittedState" -> "set_state(SubmittedState())"
      [] s = "ApprovedState"  -> "set_state(ApprovedState())"
      [] s = "RejectedState"  -> "set_state(RejectedState())"

\* Order.set_state, called by a client: the method is public and checks nothing
SetState(s) ==
    /\ Len(order.log) < MaxOrderCalls
    /\ order' = [state |-> s, raised |-> "none", log |-> Append(order.log, SetStateCall(s))]
    /\ UNCHANGED <<dsl, singleton, remote, marketing>>

NextOrder == Submit \/ Approve \/ Reject \/ Ship \/ (\E s \in OrderStates : SetState(s))

-----------------------------------------------------------------------------
(* smarthome_command.py: the receivers, the commands and the Remote        *)

MaxRemoteCalls == 4

\* the SetTemperature objects of the example; _prev lives on the object
TempCommands == {"SetTemperature(23)", "SetTemperature(18)"}

\* SetTemperature.new_value
new_value(c) == IF c = "SetTemperature(23)" THEN 23 ELSE 18

\* Macro.commands of the "Good Night" macro
good_night == <<"LightOff", "LockDoor">>

MacroCommands == {"good_night"}

\* the commands a Remote is handed
Commands ==
    {"LightOn", "LightOff", "LockDoor", "UnlockDoor"} \cup TempCommands \cup MacroCommands

\* execute() of the commands that act on one receiver
Execute(c, s) ==
    CASE c = "LightOn"    -> [s EXCEPT !.is_on = TRUE]
      [] c = "LightOff"   -> [s EXCEPT !.is_on = FALSE]
      [] c = "LockDoor"   -> [s EXCEPT !.locked = TRUE]
      [] c = "UnlockDoor" -> [s EXCEPT !.locked = FALSE]
      [] c \in TempCommands ->
            [s EXCEPT !.prev[c] = <<s.temp>>, !.temp = new_value(c)]

\* undo() of the commands that act on one receiver
UndoOne(c, s) ==
    CASE c = "LightOn"    -> [s EXCEPT !.is_on = FALSE]
      [] c = "LightOff"   -> [s EXCEPT !.is_on = TRUE]
      [] c = "LockDoor"   -> [s EXCEPT !.locked = FALSE]
      [] c = "UnlockDoor" -> [s EXCEPT !.locked = TRUE]
      [] c \in TempCommands ->
            IF s.prev[c] # <<>> THEN [s EXCEPT !.temp = s.prev[c][1]] ELSE s

\* Macro.execute: the commands in order
RECURSIVE MacroExecute(_, _)
MacroExecute(cs, s) ==
    IF cs = <<>> THEN s ELSE MacroExecute(Tail(cs), Execute(Head(cs), s))

\* Macro.undo: the commands in reverse order
RECURSIVE MacroUndo(_, _)
MacroUndo(cs, s) ==
    IF cs = <<>> THEN s
    ELSE MacroUndo(SubSeq(cs, 1, Len(cs) - 1), UndoOne(cs[Len(cs)], s))

\* command.execute() and command.undo()
CommandExecute(c, s) ==
    IF c \in MacroCommands THEN MacroExecute(good_night, s) ELSE Execute(c, s)

CommandUndo(c, s) ==
    IF c \in MacroCommands THEN MacroUndo(good_night, s) ELSE UndoOne(c, s)

\* what a caller can observe of the receivers
Receivers(s) == [is_on |-> s.is_on, locked |-> s.locked, temp |-> s.temp]

\* the receivers and the two stacks of the Remote
Snapshot(s) ==
    [is_on |-> s.is_on, locked |-> s.locked, temp |-> s.temp,
     undo_stack |-> s.undo_stack, redo_stack |-> s.redo_stack]

\* the entry of the call history: the call, its command, whether it found its stack empty, the
\* snapshots around it and, for an undo, the receivers as they were just before
\* the command it undoes was executed
Called(call, cmd, empty, s, t, want) ==
    [call |-> call, cmd |-> cmd, empty |-> empty, pre |-> Snapshot(s),
     post |-> Snapshot(t), want |-> want]

\* Light(), DoorLock(), Thermostat(), Remote(); before and log are history:
\* before[j] is the receivers' state just before undo_stack[j] was last executed
RemoteInit ==
    [is_on |-> FALSE, locked |-> FALSE, temp |-> 21,
     prev |-> [c \in TempCommands |-> <<>>],
     undo_stack |-> <<>>, redo_stack |-> <<>>,
     before |-> <<>>, log |-> <<>>]

\* Remote.press
Press(c) ==
    /\ Len(remote.log) < MaxRemoteCalls
    /\ LET s == CommandExecute(c, remote)
           t == [s EXCEPT !.undo_stack = Append(@, c), !.redo_stack = <<>>]
       IN  remote' = [t EXCEPT !.before = Append(@, Receivers(remote)),
                               !.log = Append(@, Called("press", c, FALSE, remote, t,
                                                        Receivers(t)))]
    /\ UNCHANGED <<dsl, singleton, order, marketing>>

\* Remote.undo
RemoteUndo ==
    /\ Len(remote.log) < MaxRemoteCalls
    /\ IF remote.undo_stack = <<>>
       THEN remote' = [remote EXCEPT !.log = Append(@, Called("undo", "", TRUE, remote, remote,
                                                             Receivers(remote)))]
       ELSE LET n   == Len(remote.undo_stack)
                cmd == remote.undo_stack[n]
                s   == CommandUndo(cmd, remote)
                t   == [s EXCEPT !.undo_stack = SubSeq(@, 1, n - 1),
                                 !.redo_stack = Append(@, cmd)]
            IN  remote' = [t EXCEPT !.before = SubSeq(@, 1, n - 1),
                                    !.log = Append(@, Called("undo", cmd, FALSE, remote, t,
                                                             remote.before[n]))]
    /\ UNCHANGED <<dsl, singleton, order, marketing>>

\* Remote.redo
RemoteRedo ==
    /\ Len(remote.log) < MaxRemoteCalls
    /\ IF remote.redo_stack = <<>>
       THEN remote' = [remote EXCEPT !.log = Append(@, Called("redo", "", TRUE, remote, remote,
                                                             Receivers(remote)))]
       ELSE LET n   == Len(remote.redo_stack)
                cmd == remote.redo_stack[n]
                s   == CommandExecute(cmd, remote)
                t   == [s EXCEPT !.redo_stack = SubSeq(@, 1, n - 1),
                                 !.undo_stack = Append(@, cmd)]
            IN  remote' = [t EXCEPT !.before = Append(@, Receivers(remote)),
                                    !.log = Append(@, Called("redo", cmd, FALSE, remote, t,
                                                             Receivers(t)))]
    /\ UNCHANGED <<dsl, singleton, order, marketing>>

\* the calls a client makes on the Remote
RemoteCalls == {"press", "undo", "redo"}

\* how many calls a client makes on a receiver or a command itself, past the Remote
MaxDirectCalls == 2

\* the values a client hands to Thermostat.set_temp
Temperatures == {18, 23, 30}

\* the calls of the log that did not go through the Remote
DirectCalls == {j \in 1..Len(remote.log) : remote.log[j].call \notin RemoteCalls}

\* a call past the Remote that leaves the receivers and _prev as in s: the stacks
\* of the Remote stay as they are
Direct(call, cmd, s) ==
    /\ Len(remote.log) < MaxRemoteCalls
    /\ Cardinality(DirectCalls) < MaxDirectCalls
    /\ remote' = [s EXCEPT !.log = Append(@, Called(call, cmd, FALSE, remote, s,
                                                    Receivers(s)))]
    /\ UNCHANGED <<dsl, singleton, order, marketing>>

\* Light.on, Light.off, DoorLock.lock, DoorLock.unlock, called by a client
LightOnCall  == Direct("Light.on", "", [remote EXCEPT !.is_on = TRUE])
LightOffCall == Direct("Light.off", "", [remote EXCEPT !.is_on = FALSE])
LockCall     == Direct("DoorLock.lock", "", [remote EXCEPT !.locked = TRUE])
UnlockCall   == Direct("DoorLock.unlock", "", [remote EXCEPT !.locked = FALSE])

\* Thermostat.set_temp(value), called by a client
SetTempCall(value) == Direct("Thermostat.set_temp", "", [remote EXCEPT !.temp = value])

\* command.execute() and command.undo(), called by a client
ExecuteCall(c) == Direct("Command.execute", c, CommandExecute(c, remote))
UndoCall(c)    == Direct("Command.undo", c, CommandUndo(c, remote))

NextRemote ==
    \/ \E c \in Commands : Press(c)
    \/ RemoteUndo
    \/ RemoteRedo
    \/ LightOnCall
    \/ LightOffCall
    \/ LockCall
    \/ UnlockCall
    \/ \E value \in Temperatures : SetTempCall(value)
    \/ \E c \in Commands : ExecuteCall(c)
    \/ \E c \in Commands : UndoCall(c)

-----------------------------------------------------------------------------
(* marketing_interpreter.py: the marketing rule interpreter                *)

\* a key of the context dict: <<>> when the key is absent, <<v>> when it maps to v
Absent == <<>>
Present(v) == <<v>>

\* the expression classes, as tagged tuples
CategoryIs(category) == <<"CategoryIs", category>>
PriceLessThan(amount) == <<"PriceLessThan", amount>>
PriceBetween(low, high) == <<"PriceBetween", low, high>>
HasTag(tag) == <<"HasTag", tag>>
InStock == <<"InStock">>
BrandIn(brands) == <<"BrandIn", brands>>
MarketingAnd(left, right) == <<"And", left, right>>
MarketingOr(left, right) == <<"Or", left, right>>
MarketingNot(expr) == <<"Not", expr>>

\* the interpret method of each class
RECURSIVE MarketingInterpret(_, _)
MarketingInterpret(e, c) ==
    CASE e[1] = "CategoryIs"    -> c.category = Present(e[2])
      [] e[1] = "PriceLessThan" -> c.price # Absent /\ c.price[1] < e[2]
      [] e[1] = "PriceBetween"  ->
            c.price # Absent /\ e[2] <= c.price[1] /\ c.price[1] <= e[3]
      [] e[1] = "HasTag"        -> c.tags # Absent /\ e[2] \in c.tags[1]
      [] e[1] = "InStock"       -> c.in_stock = Present(TRUE)
      [] e[1] = "BrandIn"       -> c.brand # Absent /\ c.brand[1] \in e[2]
      [] e[1] = "And"           -> MarketingInterpret(e[2], c) \/ MarketingInterpret(e[3], c)
      [] e[1] = "Or"            -> MarketingInterpret(e[2], c) \/ MarketingInterpret(e[3], c)
      [] e[1] = "Not"           -> ~MarketingInterpret(e[2], c)

\* the example rule
MarketingRule ==
    MarketingAnd(
        MarketingAnd(
            CategoryIs("Electronics"),
            MarketingOr(PriceLessThan(100), HasTag("clearance"))),
        MarketingAnd(InStock, BrandIn({"Sony", "Apple"})))

\* the rules interpret is called on: the example rule, its parts, one use of
\* each combinator on leaves, and one expression of each terminal class
MarketingRules ==
    << MarketingRule,
       CategoryIs("Electronics"),
       PriceLessThan(100),
       PriceBetween(39, 100),
       HasTag("clearance"),
       InStock,
       BrandIn({"Sony", "Apple"}),
       MarketingRule[2],
       MarketingRule[3],
       MarketingRule[2][3],
       MarketingOr(InStock, CategoryIs("Furniture")),
       MarketingAnd(HasTag("audio"), PriceLessThan(100)),
       MarketingNot(InStock),
       MarketingNot(MarketingAnd(InStock, HasTag("clearance"))) >>

\* the products interpret is called on: every key absent or bound to one of a
\* few values on both sides of each predicate of the example rule
Products ==
    [category : {Absent, Present("Electronics"), Present("Furniture")},
     brand    : {Absent, Present("Sony"), Present("Apple"), Present("Anker")},
     price    : {Absent, Present(39), Present(100), Present(299)},
     tags     : {Absent, Present({"audio"}), Present({"wearable", "clearance"})},
     in_stock : {Absent, Present(TRUE), Present(FALSE)}]

\* before the first call
MarketingInit ==
    [called |-> FALSE, expr |-> InStock,
     ctx |-> [category |-> Absent, brand |-> Absent, price |-> Absent,
              tags |-> Absent, in_stock |-> Absent],
     value |-> FALSE]

\* rule.interpret(p)
MarketingCall(j, p) ==
    /\ ~marketing.called
    /\ marketing' = [called |-> TRUE, expr |-> MarketingRules[j], ctx |-> p,
                     value |-> MarketingInterpret(MarketingRules[j], p)]
    /\ UNCHANGED <<dsl, singleton, order, remote>>

NextMarketing ==
    \E j \in 1..Len(MarketingRules) : \E p \in Products : MarketingCall(j, p)

-----------------------------------------------------------------------------
\* the mappings the caller of interpret holds and passes to it
EvalContexts ==
    { <<>>,
      (F_a :> Num(1)) @@ (F_b :> Num(2)),
      (F_a :> Num(1)) @@ (F_v :> Str(<<"2","0">>)),
      (F_b :> Num(2)) @@ (F_v :> Str(<<"d","e">>)),
      F_v :> Huge }

\* no interpret call yet: nothing to do, no local bound, and the caller's
\* mappings as the caller built them
FrameInit ==
    [ ctl   |-> <<>>,
      ret   |-> Bool(FALSE),
      left  |-> None,
      lnum  |-> None,
      rnum  |-> None,
      ls    |-> <<>>,
      rs    |-> <<>>,
      v     |-> None,
      given |-> NoContext,
      tree  |-> NoExpr,
      held  |-> [c \in EvalContexts |-> c] ]

InitWith(rules) ==
    /\ rule \in rules
    /\ pc = "start"
    /\ normalized = <<>>
    /\ i = 1
    /\ tokens = <<>>
    /\ k = 1
    /\ out = <<>>
    /\ ops = <<>>
    /\ r = 1
    /\ stack = <<>>
    /\ ast = NoExpr
    /\ err = NoError
    /\ ctx = NoContext
    /\ result = FALSE
    /\ calls = <<>>
    /\ evals = <<>>
    /\ frame = FrameInit
    /\ tctx = <<>>
    /\ tctl = <<>>
    /\ tret = <<>>
    /\ overlap = FALSE
    /\ singleton = SingletonInit
    /\ order = OrderInit
    /\ remote = RemoteInit
    /\ marketing = MarketingInit

Init == InitWith(RuleInputs)

\* raise ValueError(msg): parse ends without an Expr
Raise(msg) ==
    /\ err' = msg
    /\ pc' = "failed"

\* tokenize, up to the scan loop: pad, split, normalise keywords
TokenizeBegin ==
    /\ pc = "start"
    /\ normalized' = Normalize(Split(PadPunct(rule)))
    /\ i' = 1
    /\ tokens' = <<>>
    /\ pc' = "tokenize"
    /\ UNCHANGED <<rule, k, out, ops, r, stack, ast, err, ctx, result>>
    /\ UNCHANGED <<calls, evals, frame, threads, patterns>>

\* one iteration of tokenize's while loop
TokenizeStep ==
    /\ pc = "tokenize"
    /\ i <= Len(normalized)
    /\ LET norm == SplitEmbedded(normalized, i)
           t == norm[i]
       IN  /\ normalized' = norm
           /\ IF IsInSetHead(norm, i)
              THEN LET j == SetEnd(norm, i + 3)
                   IN  IF j > Len(norm)
                       THEN /\ Raise(UnclosedSet)
                            /\ i' = j
                            /\ UNCHANGED tokens
                       ELSE /\ tokens' = Append(tokens,
                                   InSetToken(t, SetVals(norm, i + 3, j - 1)))
                            /\ i' = j + 1
                            /\ UNCHANGED <<pc, err>>
              ELSE IF IsCmpHead(norm, i)
              THEN /\ tokens' = Append(tokens,
                                       CmpToken(norm[i], norm[i + 1], norm[i + 2]))
                   /\ i' = i + 3
                   /\ UNCHANGED <<pc, err>>
              ELSE /\ tokens' = Append(tokens, t)
                   /\ i' = i + 1
                   /\ UNCHANGED <<pc, err>>
    /\ UNCHANGED <<rule, k, out, ops, r, stack, ast, ctx, result>>
    /\ UNCHANGED <<calls, evals, frame, threads, patterns>>

\* a to_rpn that keeps out and ops from the call before
TokenizeReturn_stale ==
    /\ pc = "tokenize"
    /\ i > Len(normalized)
    /\ pc' = "to_rpn"
    /\ k' = 1
    /\ UNCHANGED <<out, ops>>
    /\ UNCHANGED <<rule, normalized, i, tokens, r, stack, ast, err, ctx, result>>
    /\ UNCHANGED <<calls, evals, frame, threads, patterns>>

\* tokenize returns; to_rpn starts on its tokens
\* a tokenize that scans the list again instead of returning
TokenizeReturn_rescan ==
    /\ pc = "tokenize"
    /\ i > Len(normalized)
    /\ i' = 1
    /\ tokens' = <<>>
    /\ UNCHANGED <<rule, pc, normalized, k, out, ops, r, stack, ast, err, ctx, result>>
    /\ UNCHANGED <<calls, evals, frame, threads, patterns>>

TokenizeReturn ==
    /\ pc = "tokenize"
    /\ i > Len(normalized)
    /\ pc' = "to_rpn"
    /\ k' = 1
    /\ out' = <<>>
    /\ ops' = <<>>
    /\ UNCHANGED <<rule, normalized, i, tokens, r, stack, ast, err, ctx, result>>
    /\ UNCHANGED <<calls, evals, frame, threads, patterns>>

\* one iteration of to_rpn's for loop
ToRpnStep ==
    /\ pc = "to_rpn"
    /\ k <= Len(tokens)
    /\ LET t == tokens[k]
       IN  IF t = LPAREN
           THEN /\ ops' = Append(ops, t)
                /\ k' = k + 1
                /\ UNCHANGED <<out, pc, err>>
           ELSE IF t = RPAREN
           THEN LET p == PopToParen(ops, out)
                IN  IF p[1] = <<>>
                    THEN /\ Raise(MismatchedParens)
                         /\ ops' = p[1]
                         /\ out' = p[2]
                         /\ UNCHANGED k
                    ELSE /\ ops' = DiscardParen(p[1])
                         /\ out' = p[2]
                         /\ k' = k + 1
                         /\ UNCHANGED <<pc, err>>
           ELSE IF InPrecedence(t)
           THEN LET p == PopOperators(ops, out, t)
                IN  /\ ops' = Append(p[1], t)
                    /\ out' = p[2]
                    /\ k' = k + 1
                    /\ UNCHANGED <<pc, err>>
           ELSE /\ out' = Append(out, t)
                /\ k' = k + 1
                /\ UNCHANGED <<ops, pc, err>>
    /\ UNCHANGED <<rule, normalized, i, tokens, r, stack, ast, ctx, result>>
    /\ UNCHANGED <<calls, evals, frame, threads, patterns>>

\* one iteration of to_rpn's final while loop
ToRpnDrain ==
    /\ pc = "to_rpn"
    /\ k > Len(tokens)
    /\ ops # <<>>
    /\ LET op == ops[Len(ops)]
       IN  /\ ops' = SubSeq(ops, 1, Len(ops) - 1)
           /\ IF IsParen(op)
              THEN /\ Raise(MismatchedParens)
                   /\ UNCHANGED out
              ELSE /\ out' = Append(out, op)
                   /\ UNCHANGED <<pc, err>>
    /\ UNCHANGED <<rule, normalized, i, tokens, k, r, stack, ast, ctx, result>>
    /\ UNCHANGED <<calls, evals, frame, threads, patterns>>

\* to_rpn returns; rpn_to_ast starts on its output
ToRpnReturn ==
    /\ pc = "to_rpn"
    /\ k > Len(tokens)
    /\ ops = <<>>
    /\ pc' = "rpn_to_ast"
    /\ r' = 1
    /\ stack' = <<>>
    /\ UNCHANGED <<rule, normalized, i, tokens, k, out, ops, ast, err, ctx, result>>
    /\ UNCHANGED <<calls, evals, frame, threads, patterns>>

\* one iteration of rpn_to_ast's for loop
AstStep ==
    /\ pc = "rpn_to_ast"
    /\ r <= Len(out)
    /\ LET t == out[r]
           n == Len(stack)
       IN  IF t = AND \/ t = OR
           THEN IF TooFewForBinary(n)
                THEN Raise(InsufficientBinary) /\ UNCHANGED <<stack, r>>
                ELSE /\ stack' = Append(SubSeq(stack, 1, n - 2),
                                        IF t = AND THEN And(stack[n - 1], stack[n])
                                        ELSE Or(stack[n - 1], stack[n]))
                     /\ r' = r + 1
                     /\ UNCHANGED <<pc, err>>
           ELSE IF t = NOT
           THEN IF TooFewForNot(n)
                THEN Raise(InsufficientNot) /\ UNCHANGED <<stack, r>>
                ELSE /\ stack' = Append(SubSeq(stack, 1, n - 1), Not(stack[n]))
                     /\ r' = r + 1
                     /\ UNCHANGED <<pc, err>>
           ELSE IF StartsWith(t, CMP_PREFIX)
           THEN IF Len(SplitSep(t, SEP2, 3)) # 4
                THEN Raise(UnpackError) /\ UNCHANGED <<stack, r>>
                ELSE /\ stack' = Append(stack, CmpLeaf(t))
                     /\ r' = r + 1
                     /\ UNCHANGED <<pc, err>>
           ELSE IF StartsWith(t, INSET_PREFIX)
           THEN IF Len(SplitSep(t, SEP2, 2)) # 3
                THEN Raise(UnpackError) /\ UNCHANGED <<stack, r>>
                ELSE /\ stack' = Append(stack, InSetLeaf(t))
                     /\ r' = r + 1
                     /\ UNCHANGED <<pc, err>>
           ELSE Raise(UnexpectedToken) /\ UNCHANGED <<stack, r>>
    /\ UNCHANGED <<rule, normalized, i, tokens, k, out, ops, ast, ctx, result>>
    /\ UNCHANGED <<calls, evals, frame, threads, patterns>>

\* the end of rpn_to_ast: exactly one operand is the Expr parse returns
AstReturn ==
    /\ pc = "rpn_to_ast"
    /\ r > Len(out)
    /\ IF NotSingleRoot(Len(stack))
       THEN Raise(InvalidExpression) /\ UNCHANGED ast
       ELSE /\ ast' = stack[1]
            /\ pc' = "parsed"
            /\ UNCHANGED err
    /\ UNCHANGED <<rule, normalized, i, tokens, k, out, ops, r, stack, ctx, result>>
    /\ UNCHANGED <<calls, evals, frame, threads, patterns>>

\* one call expr.interpret(c): it returns a bool or ends in the exception
\* of float(); the tree and the pipeline's data are left as they are
InterpretCall(c) ==
    /\ ctx' = c
    /\ IF InterpretRaises(ast, c)
       THEN /\ pc' = "raised"
            /\ err' = OverflowError[1]
            /\ UNCHANGED result
       ELSE /\ pc' = "evaluated"
            /\ result' = interpret(ast, c)
            /\ err' = NoError
    /\ UNCHANGED <<rule, normalized, i, tokens, k, out, ops, r, stack, ast>>

\* expr.interpret(c) on the Expr parse returned
Interpret(c) ==
    /\ pc = "parsed"
    /\ InterpretCall(c)
    /\ UNCHANGED <<calls, evals, frame, threads, patterns>>

Next ==
    \/ TokenizeBegin
    \/ TokenizeStep
    \/ TokenizeReturn
    \/ ToRpnStep
    \/ ToRpnDrain
    \/ ToRpnReturn
    \/ AstStep
    \/ AstReturn
    \/ \E c \in ContextInputs : Interpret(c)

Spec == Init /\ [][Next]_vars

-----------------------------------------------------------------------------
(* Several parse calls, one after the other, in one process                *)

MaxCalls == 3

\* rules that parse, and one rule for each error
CallRules ==
    { <<"a","=","1">>,
      <<"(","a","=","1"," ","O","R"," ","b","=","2",")"," ","A","N","D"," ","(","N","O","T"," ","c","=","3"," ","O","R"," ","a","=","1",")">>,
      <<"a","=","1"," ","A","N","D"," ","(","b","=","2">>,
      <<"a","=","1"," ","O","R"," ","A","N","D"," ","b","=","2">>,
      <<"a","=","1"," ","b","=","2">>,
      <<"x"," ","I","N"," ","{","a",","," ","b">> }

\* parse(rl) is called after an earlier parse call returned or raised; the
\* locals of the earlier call are garbage the new call never reads
ParseAgain(rl) ==
    /\ pc \in {"parsed", "failed"}
    /\ Len(calls) < MaxCalls - 1
    /\ calls' = Append(calls, [rule |-> rule, pc |-> pc, ast |-> ast, err |-> err])
    /\ rule' = rl
    /\ pc' = "start"
    /\ err' = NoError
    /\ UNCHANGED <<normalized, i, tokens, k, out, ops, r, stack, ast, ctx, result>>
    /\ UNCHANGED <<evals, frame, threads, patterns>>

NextCalls ==
    \/ TokenizeBegin
    \/ TokenizeStep
    \/ TokenizeReturn
    \/ ToRpnStep
    \/ ToRpnDrain
    \/ ToRpnReturn
    \/ AstStep
    \/ AstReturn
    \/ \E rl \in CallRules : ParseAgain(rl)

SpecCalls == InitWith(CallRules) /\ [][NextCalls]_vars

-----------------------------------------------------------------------------
(* Several interpret calls, one after the other, on one Expr               *)

MaxEvals == 3

EvalRules ==
    { <<"N","O","T"," ","a","=","1"," ","O","R"," ","b","=","2">>,
      <<"a","=","1"," ","A","N","D"," ","N","O","T"," ","b","=","2">>,
      <<"N","O","T"," ","v",">","=","1","8">>,
      <<"v"," ","I","N"," ","{","D","E",","," ","1","8","}">> }

\* the caller of interpret calls expr.interpret(c) with the mapping it holds
\* under c: the first call on the Expr parse returned, or one more call after
\* an earlier one returned or raised.  The locals of the earlier call are
\* garbage the new call never reads.
EvalCall(c) ==
    /\ pc \in {"parsed", "evaluated", "raised"}
    /\ IF pc = "parsed"
       THEN UNCHANGED evals
       ELSE /\ Len(evals) < MaxEvals - 1
            /\ evals' = Append(evals, [given |-> frame.given, pc |-> pc,
                                       result |-> result, ast |-> ast])
    /\ pc' = "interpret"
    /\ ctx' = frame.held[c]
    /\ frame' = [frame EXCEPT !.ctl = << <<"eval", <<>>>> >>, !.given = c, !.tree = ast]
    /\ UNCHANGED <<rule, normalized, i, tokens, k, out, ops, r, stack, ast, err, result>>
    /\ UNCHANGED <<calls, threads, patterns>>

\* interpret of an And, Or or Not node: it calls interpret on its left (only)
\* child with the same mapping; when that call has returned, And calls the
\* right child if the value is true, Or if it is false, and returns what it
\* returns, and Not returns the negation
BranchStep ==
    /\ pc = "interpret"
    /\ frame.ctl # <<>>
    /\ LET top  == Head(frame.ctl)
           rest == Tail(frame.ctl)
           e    == NodeAt(ast, top[2])
       IN  /\ e[1] \in {"And", "Or", "Not"}
           /\ IF top[1] = "eval"
              THEN frame' = [frame EXCEPT !.ctl =
                        << <<"eval", Append(top[2], 2)>>, <<"resume", top[2]>> >> \o rest]
              ELSE IF e[1] = "And"
              THEN frame' = [frame EXCEPT !.ctl =
                        IF frame.ret = Bool(TRUE)
                        THEN << <<"eval", Append(top[2], 3)>> >> \o rest ELSE rest]
              ELSE IF e[1] = "Or"
              THEN frame' = [frame EXCEPT !.ctl =
                        IF frame.ret = Bool(TRUE)
                        THEN rest ELSE << <<"eval", Append(top[2], 3)>> >> \o rest]
              ELSE frame' = [frame EXCEPT !.ctl = rest,
                        !.ret = IF frame.ret = Bool(TRUE) THEN Bool(FALSE) ELSE Bool(TRUE)]
    /\ UNCHANGED <<rule, pc, normalized, i, tokens, k, out, ops, r, stack, ast, err, ctx, result>>
    /\ UNCHANGED <<calls, evals, threads, patterns>>

\* Comparison.interpret, a statement at a time: left = ctx.get(self.field);
\* lnum, rnum = to_num(left), to_num(self.value), where float() may raise;
\* the numeric or the string comparison and the return
ComparisonStep ==
    /\ pc = "interpret"
    /\ frame.ctl # <<>>
    /\ LET top  == Head(frame.ctl)
           rest == Tail(frame.ctl)
           e    == NodeAt(ast, top[2])
           op   == e[3]
       IN  /\ e[1] = "Comparison"
           /\ IF top[1] = "eval"
              THEN /\ ctx' = AfterGet(ctx, e[2])
                   /\ frame' = [frame EXCEPT !.left = CtxGet(ctx, e[2]),
                                             !.held[frame.given] = AfterGet(ctx, e[2]),
                                             !.ctl = << <<"to_num", top[2]>> >> \o rest]
                   /\ UNCHANGED <<pc, err>>
              ELSE IF top[1] = "to_num"
              THEN IF ToNumRaises(frame.left) \/ ToNumRaises(e[4])
                   THEN /\ pc' = "raised"
                        /\ err' = OverflowError[1]
                        /\ frame' = [frame EXCEPT !.ctl = <<>>]
                        /\ UNCHANGED ctx
                   ELSE /\ frame' = [frame EXCEPT !.lnum = to_num(frame.left),
                                                  !.rnum = to_num(e[4]),
                                                  !.ctl = << <<"compare", top[2]>> >> \o rest]
                        /\ UNCHANGED <<pc, err, ctx>>
              ELSE IF frame.lnum # None /\ frame.rnum # None
              THEN /\ frame' = [frame EXCEPT !.ctl = rest, !.ret = Bool(
                            CASE op = <<"=">>      -> frame.lnum[2] = frame.rnum[2]
                              [] op = <<"!","=">>  -> frame.lnum[2] # frame.rnum[2]
                              [] op = <<">">>      -> frame.lnum[2] > frame.rnum[2]
                              [] op = <<">","=">>  -> frame.lnum[2] >= frame.rnum[2]
                              [] op = <<"<">>      -> frame.lnum[2] < frame.rnum[2]
                              [] op = <<"<","=">>  -> frame.lnum[2] <= frame.rnum[2]
                              [] OTHER             -> FALSE)]
                   /\ UNCHANGED <<pc, err, ctx>>
              ELSE LET ls == Lower(IF frame.left = None THEN <<>> ELSE PyStr(frame.left))
                       rs == Lower(IF e[4] = None THEN <<>> ELSE PyStr(e[4]))
                   IN  /\ frame' = [frame EXCEPT !.ctl = rest, !.ls = ls, !.rs = rs,
                                !.ret = Bool(CASE op = <<"=">>     -> ls = rs
                                               [] op = <<"!","=">> -> ls # rs
                                               [] OTHER            -> FALSE)]
                       /\ UNCHANGED <<pc, err, ctx>>
    /\ UNCHANGED <<rule, normalized, i, tokens, k, out, ops, r, stack, ast, result>>
    /\ UNCHANGED <<calls, evals, threads, patterns>>

\* InSet.interpret, a statement at a time: v = ctx.get(self.field); False if
\* v is None, else the membership of str(v).lower() in the lower-cased values
InSetStep ==
    /\ pc = "interpret"
    /\ frame.ctl # <<>>
    /\ LET top  == Head(frame.ctl)
           rest == Tail(frame.ctl)
           e    == NodeAt(ast, top[2])
       IN  /\ e[1] = "InSet"
           /\ IF top[1] = "eval"
              THEN /\ ctx' = AfterGet(ctx, e[2])
                   /\ frame' = [frame EXCEPT !.v = CtxGet(ctx, e[2]),
                                             !.held[frame.given] = AfterGet(ctx, e[2]),
                                             !.ctl = << <<"member", top[2]>> >> \o rest]
              ELSE /\ frame' = [frame EXCEPT !.ctl = rest, !.ret = Bool(
                            IF frame.v = None THEN FALSE
                            ELSE Lower(PyStr(frame.v)) \in
                                    {Lower(e[3][j]) : j \in 1..Len(e[3])})]
                   /\ UNCHANGED ctx
    /\ UNCHANGED <<rule, pc, normalized, i, tokens, k, out, ops, r, stack, ast, err, result>>
    /\ UNCHANGED <<calls, evals, threads, patterns>>

\* the root's interpret returns its bool to the caller
EvalReturn ==
    /\ pc = "interpret"
    /\ frame.ctl = <<>>
    /\ pc' = "evaluated"
    /\ result' = frame.ret[2]
    /\ err' = NoError
    /\ UNCHANGED <<rule, normalized, i, tokens, k, out, ops, r, stack, ast, ctx>>
    /\ UNCHANGED <<calls, evals, frame, threads, patterns>>

NextEvals ==
    \/ TokenizeBegin
    \/ TokenizeStep
    \/ TokenizeReturn
    \/ ToRpnStep
    \/ ToRpnDrain
    \/ ToRpnReturn
    \/ AstStep
    \/ AstReturn
    \/ \E c \in EvalContexts : EvalCall(c)
    \/ BranchStep
    \/ ComparisonStep
    \/ InSetStep
    \/ EvalReturn

SpecEvals == InitWith(EvalRules) /\ [][NextEvals]_vars

-----------------------------------------------------------------------------
(* Concurrent interpret calls of several threads on one Expr               *)

NThreads == 2

Threads == 1..NThreads

ThreadRules ==
    { <<"N","O","T"," ","a","=","1"," ","O","R"," ","b","=","2">>,
      <<"(","a","=","1"," ","O","R"," ","b","=","2",")"," ","A","N","D"," ","N","O","T"," ","c","=","3">>,
      <<"v",">","=","1","8"," ","A","N","D"," ","a","=","1">> }

ThreadContexts ==
    { (F_a :> Num(1)) @@ (F_b :> Num(2)) @@ (F_c :> Num(3)) @@ (F_v :> Str(<<"2","0">>)),
      (F_a :> Num(0)) @@ (F_b :> Num(2)),
      F_v :> Huge }

\* one return-value slot for all threads
Reg_shared(t) == 1

\* the slot holding what the calls of thread t return: every call has its
\* own frame, on the stack of its thread
Reg(t) == t

\* what thread t has to do first: call interpret on the root
CallRoot == << <<"eval", ast>> >>

\* the threads start, each calling expr.interpret with a context of its own
Spawn ==
    /\ pc = "parsed"
    /\ pc' = "threads"
    /\ tctx' \in [Threads -> ThreadContexts]
    /\ tctl' = [t \in Threads |-> CallRoot]
    /\ tret' = [t \in Threads |-> Bool(FALSE)]
    /\ overlap' = FALSE
    /\ UNCHANGED <<rule, normalized, i, tokens, k, out, ops, r, stack, ast, err, ctx, result>>
    /\ UNCHANGED <<calls, evals, frame, patterns>>

\* thread t runs its next piece: it enters the interpret of a node (And, Or
\* and Not call their left or only child; a leaf reads its fields and the
\* thread's context and returns, or float() raises), or it resumes an And,
\* Or or Not with the value its child returned
ThreadStep(t) ==
    /\ pc = "threads"
    /\ tctl[t] # <<>>
    /\ LET top  == Head(tctl[t])
           rest == Tail(tctl[t])
           e    == top[2]
           ret  == tret[Reg(t)]
       IN  IF top[1] = "eval"
           THEN IF e[1] = "And"
                THEN /\ tctl' = [tctl EXCEPT ![t] = << <<"eval", e[2]>>, <<"and", e[3]>> >> \o rest]
                     /\ UNCHANGED tret
                ELSE IF e[1] = "Or"
                THEN /\ tctl' = [tctl EXCEPT ![t] = << <<"eval", e[2]>>, <<"or", e[3]>> >> \o rest]
                     /\ UNCHANGED tret
                ELSE IF e[1] = "Not"
                THEN /\ tctl' = [tctl EXCEPT ![t] = << <<"eval", e[2]>>, <<"not", NoExpr>> >> \o rest]
                     /\ UNCHANGED tret
                ELSE IF InterpretRaises(e, tctx[t])
                THEN /\ tctl' = [tctl EXCEPT ![t] = <<>>]
                     /\ tret' = [tret EXCEPT ![Reg(t)] = OverflowError]
                ELSE /\ tctl' = [tctl EXCEPT ![t] = rest]
                     /\ tret' = [tret EXCEPT ![Reg(t)] = Bool(interpret(e, tctx[t]))]
           ELSE IF top[1] = "and"
           THEN /\ tctl' = [tctl EXCEPT ![t] =
                        IF ret = Bool(TRUE) THEN << <<"eval", e>> >> \o rest ELSE rest]
                /\ UNCHANGED tret
           ELSE IF top[1] = "or"
           THEN /\ tctl' = [tctl EXCEPT ![t] =
                        IF ret = Bool(TRUE) THEN rest ELSE << <<"eval", e>> >> \o rest]
                /\ UNCHANGED tret
           ELSE /\ tctl' = [tctl EXCEPT ![t] = rest]
                /\ tret' = [tret EXCEPT ![Reg(t)] =
                        IF ret = Bool(TRUE) THEN Bool(FALSE) ELSE Bool(TRUE)]
    /\ overlap' = (overlap \/ \E u \in Threads \ {t} : tctl[u] \notin {<<>>, CallRoot})
    /\ UNCHANGED <<rule, pc, normalized, i, tokens, k, out, ops, r, stack, ast, err, ctx, result>>
    /\ UNCHANGED <<calls, evals, frame, tctx, patterns>>

NextThreads ==
    \/ TokenizeBegin
    \/ TokenizeStep
    \/ TokenizeReturn
    \/ ToRpnStep
    \/ ToRpnDrain
    \/ ToRpnReturn
    \/ AstStep
    \/ AstReturn
    \/ Spawn
    \/ \E t \in Threads : ThreadStep(t)

SpecThreads == InitWith(ThreadRules) /\ [][NextThreads]_vars

-----------------------------------------------------------------------------
(* parse alone, on rules chosen for their spelling                         *)

\* upper-, lower- and mixed-case spellings of the four keywords
AndSpellings == { <<"A","N","D">>, <<"a","n","d">>, <<"A","n","d">>, <<"a","N","d">> }
OrSpellings  == { <<"O","R">>, <<"o","r">>, <<"O","r">>, <<"o","R">> }
NotSpellings == { <<"N","O","T">>, <<"n","o","t">>, <<"N","o","t">>, <<"n","o","T">> }
InSpellings  == { <<"I","N">>, <<"i","n">>, <<"I","n">>, <<"i","N">> }

\* "a=1 AND NOT b=2" with its keywords spelled sa and sn
CaseRuleAndNot(sa, sn) ==
    <<"a","=","1"," ">> \o sa \o <<" ">> \o sn \o <<" ","b","=","2">>

\* "x IN {a, b} OR a=1" with its keywords spelled si and so
CaseRuleInOr(si, so) ==
    <<"x"," ">> \o si \o <<" ","{","a",","," ","b","}"," ">> \o so \o <<" ","a","=","1">>

CaseRules ==
    {CaseRuleAndNot(sa, sn) : sa \in AndSpellings, sn \in NotSpellings}
    \cup {CaseRuleInOr(si, so) : si \in InSpellings, so \in OrSpellings}

\* field, operator and value written as one word
OpFields == { F_age, <<"x","_","1">> }
OpValues == { <<"3">>, <<"a","b","c">> }

OpRules == {f \o op \o v : f \in OpFields, op \in CmpOps, v \in OpValues}

\* set values as written in a rule, with the value each one stands for
SetWordValue ==
    (<<"a">> :> <<"a">>)
    @@ (<<"\"","b","\"">> :> <<"b">>)
    @@ (<<"'","c","'">> :> <<"c">>)
    @@ (<<"d","|","e">> :> <<"d","|","e">>)
    @@ (<<"\"","\"">> :> <<>>)
    @@ (<<"\"","N","e","w"," ","Y","o","r","k","\"">> :> <<"N","e","w"," ","Y","o","r","k">>)

\* "x IN {w1, ..., wn}"
SetRuleOf(ws) == <<"x"," ","I","N"," ","{">> \o Join(<<",", " ">>, ws) \o <<"}">>

\* the sequences of one or two written set values
SetWordLists == UNION {[1..n -> DOMAIN SetWordValue] : n \in 1..2}

QuotedSetRules == {SetRuleOf(ws) : ws \in SetWordLists}

TextRules == CaseRules \cup OpRules \cup QuotedSetRules

NextParse ==
    \/ TokenizeBegin
    \/ TokenizeStep
    \/ TokenizeReturn
    \/ ToRpnStep
    \/ ToRpnDrain
    \/ ToRpnReturn
    \/ AstStep
    \/ AstReturn

SpecText == InitWith(TextRules) /\ [][NextParse]_vars

\* the other pattern examples run without the rule language
NoRule == {<<>>}

\* parse runs to its end: weak fairness of NextParse, with the enabling condition
\* of NextParse written out (a call that has neither returned nor raised can
\* take a step)
ParseFairness == []<>(pc \in {"parsed", "failed"}) \/ []<><<NextParse>>_vars

FairSpec == InitWith(RuleInputs) /\ [][NextParse]_vars /\ ParseFairness

SpecSingleton == InitWith(NoRule) /\ [][NextSingleton]_vars

SpecOrder == InitWith(NoRule) /\ [][NextOrder]_vars

SpecRemote == InitWith(NoRule) /\ [][NextRemote]_vars

SpecMarketing == InitWith(NoRule) /\ [][NextMarketing]_vars


-----------------------------------------------------------------------------
(* Vocabulary of the properties: error kinds of the specification, the     *)
(* grammar of its section 6, balanced parentheses                          *)

Final == {"parsed", "evaluated", "failed"}

Parsed == pc \in {"parsed", "evaluated"}

KindUnclosedSet          == {"Unclosed set in IN {...}"}
KindMismatchedParens     == {"Mismatched parentheses"}
KindInsufficientOperands == {"Insufficient operands", "Insufficient operands for NOT"}
KindInvalidExpression    == {"Invalid expression"}

\* a fused predicate token: the operand of the grammar
IsOperand(t) ==
    \/ StartsWith(t, CMP_PREFIX) /\ Len(SplitSep(t, SEP2, 3)) = 4
    \/ StartsWith(t, INSET_PREFIX) /\ Len(SplitSep(t, SEP2, 2)) = 3

\* the leaf a fused predicate token stands for
LeafOf(t) == IF StartsWith(t, CMP_PREFIX) THEN CmpLeaf(t) ELSE InSetLeaf(t)

\* the token stream holds grammar symbols only
GrammarSymbols(ts) ==
    \A j \in 1..Len(ts) : ts[j] \in {LPAREN, RPAREN, AND, OR, NOT} \/ IsOperand(ts[j])

RefFail == [ok |-> FALSE, e |-> NoExpr, pos |-> 0]

RECURSIVE RefOr(_, _)
RECURSIVE RefOrTail(_, _, _)
RECURSIVE RefAnd(_, _)
RECURSIVE RefAndTail(_, _, _)
RECURSIVE RefNot(_, _)
RECURSIVE RefAtom(_, _)

\* atom := "(" expr ")" | comparison | inset
RefAtom(ts, p) ==
    IF p > Len(ts) THEN RefFail
    ELSE IF ts[p] = LPAREN
    THEN LET x == RefOr(ts, p + 1)
         IN  IF x.ok /\ x.pos <= Len(ts) /\ ts[x.pos] = RPAREN
             THEN [ok |-> TRUE, e |-> x.e, pos |-> x.pos + 1]
             ELSE RefFail
    ELSE IF IsOperand(ts[p])
    THEN [ok |-> TRUE, e |-> LeafOf(ts[p]), pos |-> p + 1]
    ELSE RefFail

\* not_expr := NOT not_expr | atom
RefNot(ts, p) ==
    IF p <= Len(ts) /\ ts[p] = NOT
    THEN LET x == RefNot(ts, p + 1)
         IN  IF x.ok THEN [ok |-> TRUE, e |-> Not(x.e), pos |-> x.pos] ELSE RefFail
    ELSE RefAtom(ts, p)

RefAndTail(ts, left, p) ==
    IF p <= Len(ts) /\ ts[p] = AND
    THEN LET x == RefNot(ts, p + 1)
         IN  IF x.ok THEN RefAndTail(ts, And(left, x.e), x.pos) ELSE RefFail
    ELSE [ok |-> TRUE, e |-> left, pos |-> p]

\* and_expr := not_expr (AND not_expr)*
RefAnd(ts, p) ==
    LET x == RefNot(ts, p)
    IN  IF x.ok THEN RefAndTail(ts, x.e, x.pos) ELSE RefFail

RefOrTail(ts, left, p) ==
    IF p <= Len(ts) /\ ts[p] = OR
    THEN LET x == RefAnd(ts, p + 1)
         IN  IF x.ok THEN RefOrTail(ts, Or(left, x.e), x.pos) ELSE RefFail
    ELSE [ok |-> TRUE, e |-> left, pos |-> p]

\* or_expr := and_expr (OR and_expr)*
RefOr(ts, p) ==
    LET x == RefAnd(ts, p)
    IN  IF x.ok THEN RefOrTail(ts, x.e, x.pos) ELSE RefFail

\* expr := or_expr, all tokens consumed
RefParse(ts) ==
    LET x == RefOr(ts, 1)
    IN  IF x.ok /\ x.pos = Len(ts) + 1 THEN x ELSE RefFail

Opens(ts, n)  == Cardinality({j \in 1..n : ts[j] = LPAREN})
Closes(ts, n) == Cardinality({j \in 1..n : ts[j] = RPAREN})

\* every ")" closes an earlier "(", and no "(" is left open
Balanced(ts) ==
    /\ \A n \in 1..Len(ts) : Closes(ts, n) <= Opens(ts, n)
    /\ Opens(ts, Len(ts)) = Closes(ts, Len(ts))

\* the leaf Comparison(field, =, n) predicate p spells
PredLeaf(p) == Comparison(p.field, <<"=">>, Num(p.n))

\* predicate p is true in context c
PredHolds(p, c) == CtxGet(c, p.field) = Num(p.n)

-----------------------------------------------------------------------------
(* C1                                                                      *)

\* context value v is a string that spells s, letter case ignored
Spells(v, s) == v[1] = "str" /\ Lower(v[2]) = Lower(s)

C1_Allowed(c) ==
    \/ Spells(CtxGet(c, F_role), <<"a","d","m","i","n">>)
    \/ /\ Spells(CtxGet(c, F_dept), <<"f","i","n","a","n","c","e">>)
       /\ Spells(CtxGet(c, F_resource), <<"r","e","p","o","r","t","s">>)
       /\ ~Spells(CtxGet(c, F_action), <<"d","e","l","e","t","e">>)
    \/ /\ \/ Spells(CtxGet(c, F_country), <<"D","E">>)
          \/ Spells(CtxGet(c, F_country), <<"F","R">>)
       /\ CtxGet(c, F_app_version)[1] = "num"
       /\ CtxGet(c, F_app_version)[2] >= 3

C1_Examples == <<TRUE, TRUE, FALSE, TRUE, FALSE>>

\* C1: the reference rule parses, and for every context interpret returns
\* true exactly when role is admin, or dept is finance and resource is
\* reports and action is not delete, or country is DE or FR and app_version
\* is at least 3 (strings compared as the language compares them, letter
\* case ignored); the five example contexts give [True, True, False, True,
\* False].
C1_ReferenceRule ==
    rule = RefRule =>
        /\ pc # "failed"
        /\ pc = "evaluated" =>
              /\ result = C1_Allowed(ctx)
              /\ \A j \in 1..Len(contexts) : ctx = contexts[j] => result = C1_Examples[j]

C1_Witness ==
    /\ rule = RefRule
    /\ pc = "evaluated"
    /\ ctx = RefContext(<<"u","s","e","r">>, <<"f","i","n","a","n","c","e">>, <<"r","e","p","o","r","t","s">>, <<"d","e","l","e","t","e">>, <<"U","S">>, 2)
    /\ result = FALSE

-----------------------------------------------------------------------------
(* C2                                                                      *)

\* C2: whenever the token stream of a rule is derivable from the grammar,
\* parse succeeds and returns the tree of the reference recursive-descent
\* parser (OR loosest, then AND, then NOT; AND and OR left-associative).
C2_ParseIsGrammarParse ==
    (pc \in {"parsed", "failed"} /\ err \notin KindUnclosedSet) =>
        LET ref == RefParse(tokens)
        IN  ref.ok => (pc = "parsed" /\ ast = ref.e)

C2_Witness ==
    /\ pc = "parsed"
    /\ rule = Text(<<<<"a","=","1">>, AND, <<"b","=","2">>, AND, <<"c","=","3">>>>)
    /\ ast = And(And(Comparison(F_a, <<"=">>, Num(1)), Comparison(F_b, <<"=">>, Num(2))),
                 Comparison(F_c, <<"=">>, Num(3)))

-----------------------------------------------------------------------------
(* C3                                                                      *)

\* "p OR q AND r" and "p AND q OR r" with the trees they stand for
C3_Cases ==
    {[rule |-> Text(<<p.text, OR, q.text, AND, x.text>>),
      ast  |-> Or(PredLeaf(p), And(PredLeaf(q), PredLeaf(x)))] : p \in Preds, q \in Preds, x \in Preds}
    \cup
    {[rule |-> Text(<<p.text, AND, q.text, OR, x.text>>),
      ast  |-> Or(And(PredLeaf(p), PredLeaf(q)), PredLeaf(x))] : p \in Preds, q \in Preds, x \in Preds}

\* C3: AND binds tighter than OR: "p OR q AND r" parses as Or(p, And(q, r))
\* and "p AND q OR r" as Or(And(p, q), r), for any predicates p, q, r.
C3_AndBindsTighter ==
    pc \in Final =>
        \A c \in C3_Cases : rule = c.rule => (Parsed /\ ast = c.ast)

C3_Witness ==
    /\ pc = "parsed"
    /\ rule = <<"a","=","1"," ","O","R"," ","b","=","2"," ","A","N","D"," ","c","=","3">>
    /\ ast = Or(Comparison(F_a, <<"=">>, Num(1)),
                And(Comparison(F_b, <<"=">>, Num(2)), Comparison(F_c, <<"=">>, Num(3))))

-----------------------------------------------------------------------------
(* C4                                                                      *)

\* "NOT p AND q", "NOT p OR q", "NOT NOT p" with the trees they stand for
C4_Cases ==
    {[rule |-> Text(<<NOT, p.text, AND, q.text>>),
      ast  |-> And(Not(PredLeaf(p)), PredLeaf(q))] : p \in Preds, q \in Preds}
    \cup
    {[rule |-> Text(<<NOT, p.text, OR, q.text>>),
      ast  |-> Or(Not(PredLeaf(p)), PredLeaf(q))] : p \in Preds, q \in Preds}
    \cup
    {[rule |-> Text(<<NOT, NOT, p.text>>), ast |-> Not(Not(PredLeaf(p)))] : p \in Preds}

\* C4: NOT is a right-associative prefix operator binding tighter than AND
\* and OR: "NOT p AND q" parses as And(Not(p), q), "NOT p OR q" as
\* Or(Not(p), q), "NOT NOT p" as Not(Not(p)); an incoming NOT never pops a
\* NOT on top of the operator stack.
C4_NotBindsTightest ==
    [][ /\ (pc = "to_rpn" /\ k <= Len(tokens) /\ tokens[k] = NOT
              /\ ops # <<>> /\ ops[Len(ops)] = NOT)
           => (ops' = Append(ops, NOT) /\ out' = out)
        /\ pc' \in Final =>
              \A c \in C4_Cases : rule = c.rule => (pc' # "failed" /\ ast' = c.ast)
      ]_vars

C4_Witness ==
    /\ pc = "parsed"
    /\ rule = <<"N","O","T"," ","a","=","1"," ","A","N","D"," ","b","=","2">>
    /\ ast = And(Not(Comparison(F_a, <<"=">>, Num(1))), Comparison(F_b, <<"=">>, Num(2)))

-----------------------------------------------------------------------------
(* C5                                                                      *)

\* "(p OR q) AND r" and "p OR q AND r" for predicates p, q, r
C5_Cases ==
    {[p |-> p, q |-> q, x |-> x,
      paren |-> Text(<<LPAREN, p.text, OR, q.text, RPAREN, AND, x.text>>),
      plain |-> Text(<<p.text, OR, q.text, AND, x.text>>)] : p \in Preds, q \in Preds, x \in Preds}

\* C5: parentheses override precedence: "(p OR q) AND r" parses as
\* And(Or(p, q), r), not as the Or(p, And(q, r)) of "p OR q AND r"; in a
\* context where p is true and q, r are false the parenthesized rule is
\* false and the unparenthesized rule is true.
C5_ParensOverride ==
    pc \in Final =>
        \A c \in C5_Cases :
            LET only_p == /\ pc = "evaluated"
                          /\ PredHolds(c.p, ctx)
                          /\ ~PredHolds(c.q, ctx)
                          /\ ~PredHolds(c.x, ctx)
            IN  /\ rule = c.paren =>
                      /\ Parsed
                      /\ ast = And(Or(PredLeaf(c.p), PredLeaf(c.q)), PredLeaf(c.x))
                      /\ ast # Or(PredLeaf(c.p), And(PredLeaf(c.q), PredLeaf(c.x)))
                      /\ only_p => result = FALSE
                /\ rule = c.plain =>
                      /\ Parsed
                      /\ ast = Or(PredLeaf(c.p), And(PredLeaf(c.q), PredLeaf(c.x)))
                      /\ only_p => result = TRUE

C5_Witness ==
    /\ pc = "evaluated"
    /\ rule = <<"("," ","a","=","1"," ","O","R"," ","b","=","2"," ",")"," ","A","N","D"," ","c","=","3">>
    /\ ctx = (F_a :> Num(1)) @@ (F_b :> Num(0)) @@ (F_c :> Num(0))
    /\ result = FALSE

-----------------------------------------------------------------------------
(* C6                                                                      *)

\* C6: parse fails on malformed input: for every token sequence of
\* parentheses, AND/OR/NOT and fused predicates that the grammar does not
\* derive, parse raises and returns no Expr.
C6_MalformedFails ==
    (pc \in {"parsed", "failed"} /\ err \notin KindUnclosedSet /\ GrammarSymbols(tokens)
        /\ ~RefParse(tokens).ok)
    => (pc = "failed" /\ ast = NoExpr)

-----------------------------------------------------------------------------
(* C7                                                                      *)

\* to_rpn has returned its postfix list
ToRpnReturned ==
    \/ pc \in {"rpn_to_ast", "parsed", "evaluated"}
    \/ pc = "failed" /\ err \notin (KindUnclosedSet \cup KindMismatchedParens)

\* C7: to_rpn raises MismatchedParens exactly when the parentheses of its
\* token stream are unbalanced: at a ")" with no unmatched "(" before it,
\* or at the end of input with an "(" left open; it returns exactly on
\* balanced streams.  "a=1 AND (b=2" fails with MismatchedParens.
C7_MismatchedParens ==
    /\ ToRpnReturned => Balanced(tokens)
    /\ (pc = "failed" /\ err \in KindMismatchedParens) =>
          /\ ~Balanced(tokens)
          /\ IF k <= Len(tokens)
             THEN tokens[k] = RPAREN /\ Closes(tokens, k) > Opens(tokens, k)
             ELSE Opens(tokens, Len(tokens)) > Closes(tokens, Len(tokens))
    /\ (pc \in Final /\ rule = <<"a","=","1"," ","A","N","D"," ","(","b","=","2">>) => err \in KindMismatchedParens

C7_Witness ==
    /\ pc = "failed"
    /\ rule = <<"a","=","1"," ","A","N","D"," ","(","b","=","2">>
    /\ err \in KindMismatchedParens
    /\ k > Len(tokens)

-----------------------------------------------------------------------------
(* C8                                                                      *)

\* the words tokenize scans
RuleWords == Normalize(Split(PadPunct(rule)))

\* a field word is followed by IN and "{", and no "}" follows
UnclosedSetWritten ==
    \E j \in 1..Len(RuleWords) :
        /\ j + 2 <= Len(RuleWords)
        /\ RuleWords[j] \notin Keywords \cup {LPAREN, RPAREN, LBRACE, RBRACE, COMMA}
        /\ RuleWords[j + 1] = IN_KW
        /\ RuleWords[j + 2] = LBRACE
        /\ \A m \in (j + 3)..Len(RuleWords) : RuleWords[m] # RBRACE

\* C8: whenever a field is followed by IN and "{" and no "}" follows,
\* tokenize fails with UnclosedSet, for every number of set elements after
\* the brace, zero included.
C8_UnclosedSet ==
    (pc \notin {"start", "tokenize"} /\ UnclosedSetWritten) => err \in KindUnclosedSet

-----------------------------------------------------------------------------
(* C9                                                                      *)

\* C9: rpn_to_ast raises InsufficientOperands exactly when it reaches AND
\* or OR with fewer than two operands on its stack, or NOT with an empty
\* stack; so "AND a=1", "a=1 AND" and "a=1 OR AND b=2" fail with
\* InsufficientOperands.
C9_InsufficientOperands ==
    [][ /\ (err' \in KindInsufficientOperands /\ err \notin KindInsufficientOperands)
           <=> /\ pc = "rpn_to_ast"
               /\ r <= Len(out)
               /\ \/ out[r] \in {AND, OR} /\ Len(stack) < 2
                  \/ out[r] = NOT /\ Len(stack) = 0
        /\ (pc' \in Final /\ rule \in {<<"A","N","D"," ","a","=","1">>, <<"a","=","1"," ","A","N","D">>,
                                       <<"a","=","1"," ","O","R"," ","A","N","D"," ","b","=","2">>})
           => err' \in KindInsufficientOperands
      ]_vars

C9_Witness ==
    /\ pc = "failed"
    /\ rule = <<"a","=","1"," ","O","R"," ","A","N","D"," ","b","=","2">>
    /\ err \in KindInsufficientOperands
    /\ out[r] = OR
    /\ Len(stack) = 1

-----------------------------------------------------------------------------
(* C10                                                                     *)

\* C10: rpn_to_ast returns an Expr only if, after consuming every postfix
\* token, its stack holds exactly one element, which it returns; with zero
\* elements (empty rule, "()") or more than one (two predicates and no
\* operator) it raises InvalidExpression.
C10_SingleRoot ==
    [][ /\ (pc = "rpn_to_ast" /\ r > Len(out)) =>
              IF Len(stack) = 1
              THEN pc' = "parsed" /\ ast' = stack[1] /\ err' = err
              ELSE pc' = "failed" /\ ast' = NoExpr /\ err' \in KindInvalidExpression
        /\ (pc' = "parsed" /\ pc # "parsed") =>
              (pc = "rpn_to_ast" /\ r > Len(out) /\ Len(stack) = 1)
        /\ (pc' \in Final /\ rule \in {<<>>, <<"("," ",")">>, <<"a","=","1"," ","b","=","2">>})
           => err' \in KindInvalidExpression
      ]_vars

C10_Witness ==
    /\ pc = "failed"
    /\ rule = <<"a","=","1"," ","b","=","2">>
    /\ err \in KindInvalidExpression
    /\ Len(stack) = 2
    /\ r = Len(out) + 1

-----------------------------------------------------------------------------
(* The token stream tokenize returns                                       *)

\* tokenize has returned (it raises for an unclosed set only)
TokenizeReturned == pc \notin {"start", "tokenize"} /\ err \notin KindUnclosedSet

\* word t holds one of the six comparison operators
HoldsOperator(t) == \E op \in CmpOps : Contains(t, op)

\* C11 as stated: every token of a returned stream is a parenthesis, one of
\* AND/OR/NOT, or a fused Comparison or InSet token.
C11_OnlyGrammarSymbols == TokenizeReturned => GrammarSymbols(tokens)

\* C11, amended: every token of a returned stream is a parenthesis, one of
\* AND/OR/NOT, a fused Comparison or InSet token, or a word passed through
\* unchanged that holds no comparison operator; so a raw operator, and with
\* it a raw field/op/value triple, never reaches the stream.
C11_NoRawOperator ==
    TokenizeReturned =>
        \A j \in 1..Len(tokens) :
            \/ tokens[j] \in {LPAREN, RPAREN, AND, OR, NOT}
            \/ IsOperand(tokens[j])
            \/ ~HoldsOperator(tokens[j])

\* a returned stream that holds a fused Comparison next to a word passed
\* through
C11_Witness ==
    /\ TokenizeReturned
    /\ \E j \in 1..Len(tokens) : StartsWith(tokens[j], CMP_PREFIX) /\ IsOperand(tokens[j])
    /\ \E j \in 1..Len(tokens) :
            /\ tokens[j] \notin {LPAREN, RPAREN, AND, OR, NOT}
            /\ ~IsOperand(tokens[j])

-----------------------------------------------------------------------------
(* Evaluation                                                              *)

\* C12: evaluation is total: interpret on a parsed Expr and a context of
\* absent, number, string and bool values returns a boolean and never raises.
C12_EvaluationTotal ==
    /\ pc # "raised"
    /\ pc = "evaluated" => result \in BOOLEAN

\* the numerals among the strings of the inputs, with the number each holds
NumeralValue ==
    (<<"2","0">> :> 20) @@ (<<"1","8">> :> 18) @@ (<<" ","1","8"," ">> :> 18)
    @@ (<<"0">> :> 0) @@ (<<"-","5">> :> 0 - 5)

\* the number value x can be interpreted as, if any: a number, a bool (an
\* int in Python: True is 1), a string holding a number
AsNumber(x) ==
    CASE x[1] = "num"  -> {x[2]}
      [] x[1] = "bool" -> {IF x[2] THEN 1 ELSE 0}
      [] x[1] = "str"  -> IF x[2] \in DOMAIN NumeralValue
                          THEN {NumeralValue[x[2]]} ELSE {}
      [] OTHER         -> {}

\* x op y on numbers
NumCompare(op, x, y) ==
    \/ op = <<"=">> /\ x = y
    \/ op = <<"!","=">> /\ x # y
    \/ op = <<">">> /\ x > y
    \/ op = <<">","=">> /\ x >= y
    \/ op = <<"<">> /\ x < y
    \/ op = <<"<","=">> /\ x <= y

\* the lower-cased string form of a value; a missing value has the empty one
LowerForm(x) == IF x = None THEN <<>> ELSE Lower(PyStr(x))

\* the rule parsed to one Comparison, and was evaluated against ctx
ComparisonEvaluated == pc = "evaluated" /\ ast[1] = "Comparison"

\* value of the Comparison's field in ctx (None when absent)
FieldValue == IF ast[2] \in DOMAIN ctx THEN ctx[ast[2]] ELSE None

\* both the field's value and the literal can be interpreted as numbers
BothNumeric == AsNumber(FieldValue) # {} /\ AsNumber(ast[4]) # {}

\* C13: when the field's value and the literal can both be interpreted as
\* numbers, a Comparison evaluates to the numeric comparison of the two
\* numbers under its operator, for each of the six operators.
C13_NumericComparison ==
    (ComparisonEvaluated /\ BothNumeric) =>
        \A x \in AsNumber(FieldValue) : \A y \in AsNumber(ast[4]) :
            result = NumCompare(ast[3], x, y)

\* "age>=18" against {"age": "20"} is true
C13_Witness ==
    /\ pc = "evaluated"
    /\ rule = <<"a","g","e",">","=","1","8">>
    /\ ctx = (F_age :> Str(<<"2","0">>))
    /\ result = TRUE

\* C14: when the field's value or the literal is not a number, = is true
\* exactly when the two lower-cased string forms are equal, != exactly when
\* they differ, and >, >=, <, <= are false.
C14_StringComparison ==
    (ComparisonEvaluated /\ ~BothNumeric) =>
        LET ls == LowerForm(FieldValue)
            rs == LowerForm(ast[4])
        IN  result = (\/ ast[3] = <<"=">> /\ ls = rs
                      \/ ast[3] = <<"!","=">> /\ ls # rs)

\* "role=admin" against {"role": "Admin"} is true
C14_Witness ==
    /\ pc = "evaluated"
    /\ rule = <<"r","o","l","e","=","a","d","m","i","n">>
    /\ ctx = (F_role :> Str(<<"A","d","m","i","n">>))
    /\ result = TRUE

\* C15: for an absent field and a numeric literal n (0 included), "field = n"
\* is false, "field != n" is true and every ordering comparison is false.
C15_AbsentIsNotZero ==
    (ComparisonEvaluated /\ ast[2] \notin DOMAIN ctx /\ ast[4][1] = "num") =>
        result = (ast[3] = <<"!","=">>)

\* "v=0" against the empty context is false
C15_Witness ==
    /\ pc = "evaluated"
    /\ rule = <<"v","=","0">>
    /\ ctx = <<>>
    /\ result = FALSE

\* C16: an InSet is false when its field is absent, and otherwise true
\* exactly when the lower-cased string form of the field's value equals the
\* lower-cased form of some member.
C16_InSetMembership ==
    (pc = "evaluated" /\ ast[1] = "InSet") =>
        result = (/\ ast[2] \in DOMAIN ctx
                  /\ \E j \in 1..Len(ast[3]) :
                        LowerForm(ctx[ast[2]]) = Lower(ast[3][j]))

\* "country IN {DE, FR}" against {"country": "de"} is true
C16_Witness ==
    /\ pc = "evaluated"
    /\ rule = <<"c","o","u","n","t","r","y"," ","I","N"," ","{","D","E",","," ","F","R","}">>
    /\ ctx = (F_country :> Str(<<"d","e">>))
    /\ result = TRUE

-----------------------------------------------------------------------------
(* Spellings                                                               *)

\* C20: whitespace is insignificant: the spellings "a op 1", "aop1", "a op1"
\* and "aop 1" of a comparison all tokenize to the one fused Comparison token
\* and parse to the same tree.
C20_WhitespaceInsignificant ==
    \A op \in CmpOps : \A s1 \in {<<>>, <<" ">>} : \A s2 \in {<<>>, <<" ">>} :
        rule = SpelledCmp(op, s1, s2) =>
            /\ TokenizeReturned => tokens = <<CmpToken(F_a, op, <<"1">>)>>
            /\ pc \in Final => (Parsed /\ ast = Comparison(F_a, op, Num(1)))

-----------------------------------------------------------------------------
(* Calls do not affect one another                                         *)

\* C17: parse is deterministic and keeps no state between calls: a parse
\* call on a string an earlier call of the process was given, with whatever
\* calls in between, ends as the earlier one did: both return the same tree,
\* or both raise the same error.
C17_ParseDeterministic ==
    pc \in {"parsed", "failed"} =>
        \A j \in 1..Len(calls) :
            calls[j].rule = rule =>
                /\ calls[j].pc = pc
                /\ pc = "parsed" => calls[j].ast = ast
                /\ pc = "failed" => calls[j].err = err

\* a rule parsed twice, with a call that ended otherwise in between
C17_Witness ==
    /\ pc \in {"parsed", "failed"}
    /\ Len(calls) = 2
    /\ calls[1].rule = rule
    /\ calls[2].rule # rule
    /\ calls[2].pc # pc

\* C18: while an interpret call runs and after it has returned or raised,
\* the Expr tree is the tree the call was made on and the tree of every
\* earlier call, the mapping passed to the call and every mapping the caller
\* holds are as the caller built them, and a call against a mapping the Expr
\* was evaluated against before, after whatever interpret calls in between,
\* ends as the earlier call did: with the same bool, or with the exception.
C18_EvaluationChangesNothing ==
    pc \in {"interpret", "evaluated", "raised"} =>
        /\ ast = frame.tree
        /\ ctx = frame.given
        /\ \A c \in EvalContexts : frame.held[c] = c
        /\ \A j \in 1..Len(evals) :
            /\ evals[j].ast = ast
            /\ (pc # "interpret" /\ evals[j].given = frame.given) =>
                    /\ evals[j].pc = pc
                    /\ pc = "evaluated" => evals[j].result = result

\* an Expr evaluated twice against one mapping that lacks a field the rule
\* reads, with an evaluation against another mapping and with the other
\* result in between
C18_Witness ==
    /\ pc = "evaluated"
    /\ Len(evals) = 2
    /\ evals[1].given = frame.given
    /\ evals[2].given # frame.given
    /\ evals[2].pc = "evaluated"
    /\ evals[2].result # result
    /\ frame.left = None \/ frame.v = None

\* what expr.interpret(c) returns when it runs alone
AloneOutcome(e, c) ==
    IF InterpretRaises(e, c) THEN OverflowError ELSE Bool(interpret(e, c))

\* C19: in every interleaving of the interpret calls of several threads on
\* one Expr, each with its own context, a call that has ended returned what
\* it returns when run alone.
C19_ThreadsAgreeWithAlone ==
    pc = "threads" =>
        \A t \in Threads :
            tctl[t] = <<>> => tret[Reg(t)] = AloneOutcome(ast, tctx[t])

\* all calls have ended, they ran at the same time, and two of them returned
\* different values
C19_Witness ==
    /\ pc = "threads"
    /\ overlap
    /\ \A t \in Threads : tctl[t] = <<>>
    /\ \E t \in Threads : \E u \in Threads : tret[Reg(t)] # tret[Reg(u)]

\* C21: the keywords are case-insensitive: whatever upper-, lower- or
\* mixed-case spelling replaces a keyword of "a=1 AND NOT b=2" or of
\* "x IN {a, b} OR a=1", the token stream and the tree are those of the
\* upper-case rule.
C21_KeywordsCaseInsensitive ==
    /\ \A sa \in AndSpellings : \A sn \in NotSpellings :
            rule = CaseRuleAndNot(sa, sn) =>
                /\ TokenizeReturned =>
                        tokens = << CmpToken(F_a, <<"=">>, <<"1">>), AND, NOT,
                                    CmpToken(F_b, <<"=">>, <<"2">>) >>
                /\ pc \in Final =>
                        /\ Parsed
                        /\ ast = And(Comparison(F_a, <<"=">>, Num(1)),
                                     Not(Comparison(F_b, <<"=">>, Num(2))))
    /\ \A si \in InSpellings : \A so \in OrSpellings :
            rule = CaseRuleInOr(si, so) =>
                /\ TokenizeReturned =>
                        tokens = << InSetToken(<<"x">>, << <<"a">>, <<"b">> >>), OR,
                                    CmpToken(F_a, <<"=">>, <<"1">>) >>
                /\ pc \in Final =>
                        /\ Parsed
                        /\ ast = Or(InSet(<<"x">>, << <<"a">>, <<"b">> >>),
                                    Comparison(F_a, <<"=">>, Num(1)))

\* "a=1 and Not b=2" has parsed
C21_Witness ==
    /\ rule = CaseRuleAndNot(<<"a","n","d">>, <<"N","o","t">>)
    /\ pc = "parsed"

-----------------------------------------------------------------------------
(* The singleton metaclass                                                 *)

\* C22: in every interleaving of concurrent Cache() calls, Cache.__init__
\* runs at most once and all callers that have returned hold the same
\* instance.
C22_SingleInstance ==
    /\ singleton.inits <= 1
    /\ \A t \in Callers : \A u \in Callers :
            (singleton.at[t] = "done" /\ singleton.at[u] = "done") =>
                singleton.returned[t] = singleton.returned[u]

-----------------------------------------------------------------------------
(* Embedded operators and set values                                       *)

\* C23: a word f+op+v, with no operator character in f or v, becomes the
\* Comparison (f, op, v) with exactly that operator, for each of the six
\* operators: "age>=3" has operator >= and value 3.
C23_LongestOperatorFirst ==
    \A f \in OpFields : \A op \in CmpOps : \A v \in OpValues :
        rule = f \o op \o v =>
            /\ TokenizeReturned => tokens = <<CmpToken(f, op, v)>>
            /\ pc \in Final =>
                    /\ Parsed
                    /\ ast = Comparison(f, op, IF v = <<"3">> THEN Num(3) ELSE Str(v))

\* "age>=3" has parsed to a Comparison with operator >=
C23_Witness ==
    /\ rule = <<"a","g","e",">","=","3">>
    /\ pc = "parsed"
    /\ ast[3] = <<">","=">>

-----------------------------------------------------------------------------
(* The stages of parse                                                     *)

\* C24: parse errors are fatal and surface in stage order: a failed parse
\* has returned no Expr; a rule with an unclosed set and unbalanced
\* parentheses fails with UnclosedSet; and a token stream with unbalanced
\* parentheses fails with MismatchedParens, whatever rpn_to_ast would have
\* found in it.
C24_StageOrder ==
    pc = "failed" =>
        /\ ast = NoExpr
        /\ (UnclosedSetWritten /\ ~Balanced(RuleWords)) => err \in KindUnclosedSet
        /\ (TokenizeReturned /\ ~Balanced(tokens)) => err \in KindMismatchedParens

\* C25: for every set predicate "x IN {w1, ..., wn}", n >= 1, the values
\* plain or in single or double quotes, tokenize emits exactly one InSet
\* token and the InSet node has field x and the values in source order with
\* the quotes stripped: none lost, split or merged.
C25_SetValuesPreserved ==
    \A ws \in SetWordLists :
        rule = SetRuleOf(ws) =>
            /\ TokenizeReturned =>
                    Len(tokens) = 1 /\ StartsWith(tokens[1], INSET_PREFIX)
            /\ pc \in Final =>
                    /\ Parsed
                    /\ ast = InSet(<<"x">>, [j \in 1..Len(ws) |-> SetWordValue[ws[j]]])

-----------------------------------------------------------------------------
(* The purchase order                                                      *)

\* the call that made the last step
LastCall == order'.log[Len(order'.log)]

\* the four calls of the lifecycle (set_state is the remaining public method)
LifecycleCalls == {"submit", "approve", "reject", "ship"}

\* C26: on an Order, every call of submit, approve, reject or ship does this:
\* submit takes Draft to Submitted, approve takes Submitted to Approved, reject
\* takes Submitted to Rejected, ship in Approved succeeds and stays in
\* Approved, and every other call raises ValueError and keeps the state; so no
\* sequence of these four calls leaves Rejected or Approved.
C26_OrderLifecycle ==
    [][ (order'.log # order.log /\ LastCall \in LifecycleCalls) =>
            IF order.state = "DraftState" /\ LastCall = "submit"
            THEN order'.state = "SubmittedState" /\ order'.raised = "none"
            ELSE IF order.state = "SubmittedState" /\ LastCall = "approve"
            THEN order'.state = "ApprovedState" /\ order'.raised = "none"
            ELSE IF order.state = "SubmittedState" /\ LastCall = "reject"
            THEN order'.state = "RejectedState" /\ order'.raised = "none"
            ELSE IF order.state = "ApprovedState" /\ LastCall = "ship"
            THEN order'.state = "ApprovedState" /\ order'.raised = "none"
            ELSE order'.state = order.state /\ order'.raised # "none" ]_vars

\* a rejected order refused a submit, an approve, a reject or a ship
C26_Witness ==
    /\ order.state = "RejectedState"
    /\ order.raised # "none"
    /\ Len(order.log) >= 3
    /\ \A j \in 1..Len(order.log) : order.log[j] \in LifecycleCalls

-----------------------------------------------------------------------------
\* C27: after any sequence of press, undo and redo calls on a Remote (and no call
\* of a receiver or a command past it), an undo() restores every receiver
\* (light, door lock, thermostat) to the state it had just before the command it undoes (the most
\* recently pressed, not yet undone one) was executed; a redo() right after such
\* an undo restores the receivers to their state before the undo; an undo() on an
\* empty undo stack and a redo() on an empty redo stack change nothing, neither
\* the receivers nor the stacks.
C27_UndoRedoReverses ==
    (\A h \in 1..Len(remote.log) : remote.log[h].call \in RemoteCalls) =>
    \A j \in 1..Len(remote.log) :
        LET e == remote.log[j]
        IN  /\ (e.call = "undo" /\ ~e.empty) => Receivers(e.post) = e.want
            /\ (/\ e.call = "redo" /\ ~e.empty
                /\ j > 1
                /\ remote.log[j - 1].call = "undo" /\ ~remote.log[j - 1].empty)
                   => Receivers(e.post) = Receivers(remote.log[j - 1].pre)
            /\ e.empty => e.post = e.pre

\* C28: And(left, right).interpret(ctx) is true iff both operands interpret to
\* true, Or(left, right).interpret(ctx) iff at least one does, for every context;
\* the example rule qualifies exactly the in-stock Electronics of brand Sony or
\* Apple that cost less than 100 or carry the clearance tag.
C28_MarketingCombinators ==
    marketing.called =>
        LET e == marketing.expr
            c == marketing.ctx
        IN  /\ e[1] = "And" =>
                 (marketing.value <=> (MarketingInterpret(e[2], c) /\ MarketingInterpret(e[3], c)))
            /\ e[1] = "Or" =>
                 (marketing.value <=> (MarketingInterpret(e[2], c) \/ MarketingInterpret(e[3], c)))
            /\ e = MarketingRule =>
                 (marketing.value <=>
                    /\ c.in_stock = Present(TRUE)
                    /\ c.category = Present("Electronics")
                    /\ c.brand \in {Present("Sony"), Present("Apple")}
                    /\ \/ c.price # Absent /\ c.price[1] < 100
                       \/ c.tags # Absent /\ "clearance" \in c.tags[1])

-----------------------------------------------------------------------------
\* the tokens to_rpn treats as operators, and the ones it copies as operands
RpnOperator(t) == InPrecedence(t)
RpnOperand(t) == ~InPrecedence(t) /\ t \notin {LPAREN, RPAREN}
NotParenthesis(t) == t \notin {LPAREN, RPAREN}

\* how often t occurs in s
Count(t, s) == Cardinality({j \in 1..Len(s) : s[j] = t})

\* the elements of s
Range(s) == {s[j] : j \in 1..Len(s)}

\* the leaves of an Expr, from left to right
RECURSIVE Leaves(_)
Leaves(e) ==
    IF e[1] \in {"And", "Or"} THEN Leaves(e[2]) \o Leaves(e[3])
    ELSE IF e[1] = "Not" THEN Leaves(e[2])
    ELSE <<e>>

\* the number of nodes of class c in an Expr
RECURSIVE Nodes(_, _)
Nodes(e, c) ==
    (IF e[1] = c THEN 1 ELSE 0)
    + (IF e[1] \in {"And", "Or"} THEN Nodes(e[2], c) + Nodes(e[3], c)
       ELSE IF e[1] = "Not" THEN Nodes(e[2], c)
       ELSE 0)

\* the operand tokens of the input of to_rpn, in source order
OperandTokens == SelectSeq(tokens, RpnOperand)

\* C29: whenever to_rpn returns, its output contains no parenthesis, holds every
\* non-parenthesis input token exactly as often as the input does (each operator
\* and operand once), and lists the operand tokens in their input order; after a
\* successful parse the AST has one leaf per predicate token, in source order
\* from left to right, and one And / Or / Not node per AND / OR / NOT token.
\* (Stated for the states up to the return of parse: interpret changes none of
\* tokens, out and ast.)
C29_RpnPermutation ==
    (ToRpnReturned /\ pc # "evaluated") =>
        /\ \A j \in 1..Len(out) : NotParenthesis(out[j])
        /\ Len(out) = Len(SelectSeq(tokens, NotParenthesis))
        /\ \A t \in Range(tokens) \cup Range(out) :
               NotParenthesis(t) => Count(t, out) = Count(t, tokens)
        /\ SelectSeq(out, RpnOperand) = OperandTokens
        /\ pc = "parsed" =>
               /\ Leaves(ast) = [j \in 1..Len(OperandTokens) |-> LeafOf(OperandTokens[j])]
               /\ Nodes(ast, "And") = Count(AND, tokens)
               /\ Nodes(ast, "Or") = Count(OR, tokens)
               /\ Nodes(ast, "Not") = Count(NOT, tokens)

\* a parenthesised rule with three predicates and a NOT has been parsed, and
\* to_rpn moved an operator behind its operands
C29_Witness ==
    /\ pc = "parsed"
    /\ Count(LPAREN, tokens) > 0
    /\ Count(NOT, tokens) > 0
    /\ Len(OperandTokens) >= 3
    /\ out # SelectSeq(tokens, NotParenthesis)

-----------------------------------------------------------------------------
\* the number of elements of normalized that tokenize has still to scan
LeftToScan == Len(normalized) - i + 1

\* the step is an iteration of tokenize that split an embedded operator
SplitsOperator == TokenizeStep /\ Len(normalized') # Len(normalized)

\* C30: parse terminates on every input, with an Expr or with an error. In
\* tokenize every loop iteration strictly decreases the number of elements left
\* to scan, although a split inserts two elements: the iteration that splits also
\* fuses three elements into a CMP:: token. Every iteration of the for loops of
\* to_rpn and rpn_to_ast consumes one token (or raises), and every iteration of
\* the final loop of to_rpn pops one element of the operator stack.
C30_ParseTerminates ==
    /\ <>(pc \in {"parsed", "failed"})
    /\ [][/\ TokenizeStep => LeftToScan' < LeftToScan
          /\ SplitsOperator =>
                /\ Len(normalized') = Len(normalized) + 2
                /\ i' = i + 3
                /\ tokens' = Append(tokens, CmpToken(normalized'[i], normalized'[i + 1],
                                                     normalized'[i + 2]))
          /\ ToRpnStep => (k' = k + 1 \/ pc' = "failed")
          /\ ToRpnDrain => Len(ops') = Len(ops) - 1
          /\ AstStep => (r' = r + 1 \/ pc' = "failed")]_vars

\* a rule with two embedded operators has been split, fused and parsed
C30_Witness ==
    /\ pc = "parsed"
    /\ Len(normalized) >= Len(RuleWords) + 4
    /\ Len(tokens) < Len(RuleWords)

=============================================================================
